---- MODULE Spec2Model ----
(***************************************************************************)
(* A model of the callisto notation compiler: the logos tokenizer          *)
(* (syntax.rs), the recursive-descent parser over a TokenStream            *)
(* (parser.rs), the pitch and chord tables and the timeline compiler       *)
(* (midi.rs); and of the expression language next to it: its tokens and    *)
(* token stream (lexer/), its parser (parser/) and its Runtime (vm/).      *)
(*                                                                         *)
(* Conventions.  Source text is a sequence of one-character strings.       *)
(* Spans are byte offsets as in the code (0-based, end exclusive).  A Rust *)
(* array index i is the TLA+ index i + 1.  Option<T> is a sequence of      *)
(* length 0 (None) or 1 (Some).  A panic is a result whose "panic" field   *)
(* holds the message; "" means the call returned.                          *)
(***************************************************************************)
EXTENDS Integers, Sequences, FiniteSets, TLC

VARIABLES
    input,      \* the source text
    pc,         \* where the pipeline stands
    tokens,     \* TokenStream.tokens
    current,    \* TokenStream.current
    checkpoints,\* TokenStream.checkpoints
    ast,        \* the Root that parse builds
    sequence,   \* the Sequence that parse_sequence builds
    track,      \* the track that ast_to_midi builds
    ticks_since_last_event,
    event_index,\* the position of the event loop of ast_to_midi
    out,        \* what the pipeline returned
    call,       \* SpecFn, SpecTs: the function applied and its arguments
    ret,        \* SpecFn, SpecTs: what the call returned, <<>> before the call
    history,    \* SpecTs: the push_checkpoint and pop_checkpoint calls made
    runtime     \* SpecVm: the Runtime of the expression interpreter

pipeVars == <<input, pc, tokens, current, checkpoints, ast, sequence, track,
              ticks_since_last_event, event_index, out>>
fnVars == <<call, ret, history, runtime>>
vars == <<input, pc, tokens, current, checkpoints, ast, sequence, track,
          ticks_since_last_event, event_index, out, call, ret, history, runtime>>

(***************************************************************************)
(* Bounds of the model.                                                    *)
(***************************************************************************)
MinOctaveBelow == 3      \* octaves range from -MinOctaveBelow ...
MaxOctave == 9           \* ... to MaxOctave
MaxExtensions == 2       \* longest extension list of a chord name
MaxBars == 3             \* largest bar count of a Bars(n) length
MaxNumerator == 6        \* largest time-signature numerator
MaxEvents == 2           \* most items of a sequence body before its ending
MaxCheckpoints == 2      \* deepest checkpoint stack of SpecTs
MaxStackCalls == 4       \* most push_checkpoint and pop_checkpoint calls of SpecTs
MaxTokens == 5           \* longest token stream handed to the expression parser
MaxCallStack == 2        \* execute is called while call_stack is shorter than this

(***************************************************************************)
(* syntax.rs: the enumerations.                                            *)
(***************************************************************************)
NoteName == {"A", "B", "C", "D", "E", "F", "G"}
Accidental == {"Sharp", "Flat", "Natural"}
ChordQuality == {"Major", "Minor", "Diminished", "Augmented"}
ChordExtension == {"Sixth", "Seventh", "Ninth", "Eleventh", "Thirteenth"}
FixedLength == {"SixtyFourth", "ThirtySecond", "Sixteenth", "Eighth",
                "Quarter", "Half", "Whole"}

\* NoteLength: a fixed length, or Bars(bars).
Fixed(kind) == [kind |-> kind, bars |-> 0]
Bars(n) == [kind |-> "Bars", bars |-> n]
NoteLength == {Fixed(k) : k \in FixedLength} \cup {Bars(n) : n \in 0..MaxBars}

\* TimeSignature::new: both fields are NonZeroU8, a zero panics in unwrap().
TimeSignature(numerator, denominator) ==
    [numerator |-> numerator, denominator |-> denominator]

(***************************************************************************)
(* midi.rs: constants and the restricted integers of the event format.     *)
(***************************************************************************)
TICKS_PER_BEAT == 96

MAJOR_SCALE == <<0, 2, 4, 5, 7, 9, 11>>
MINOR_SCALE == <<0, 2, 3, 5, 7, 8, 10>>
DIMINISHED_SCALE == <<0, 2, 3, 5, 6, 8, 10>>
AUGMENTED_SCALE == <<0, 2, 4, 5, 7, 9, 11>>

\* u7::new, u24::new, u28::new, u4::new keep the low bits of their argument.
u4(n) == n % (2 ^ 4)
u7(n) == n % (2 ^ 7)
u24(n) == n % (2 ^ 24)
u28(n) == n % (2 ^ 28)

Returned(r) == r.panic = ""

(***************************************************************************)
(* midi.rs: midi_note.  The arithmetic is i32; within the octaves of the   *)
(* model no intermediate value leaves the i32 range.                       *)
(***************************************************************************)
midi_note_flat_up(name, accidental, octave) ==
    LET note0 == CASE name = "C" -> 0 [] name = "D" -> 2 [] name = "E" -> 4
                   [] name = "F" -> 5 [] name = "G" -> 7 [] name = "A" -> 9
                   [] name = "B" -> 11
        note1 == CASE accidental = "Sharp" -> note0 + 1
                   [] accidental = "Flat" -> note0 + 1
                   [] accidental = "Natural" -> note0
        note == note1 + ((octave + 2) * 12)
    IN  IF ~(note >= 0 /\ note <= 127)
        THEN [panic |-> "Note out of range", key |-> 0]
        ELSE [panic |-> "", key |-> u7(note)]

\* A pitch mapping without the octave offset: octave 4 starts at 4 * 12.
midi_note_unshifted(name, accidental, octave) ==
    LET note0 == CASE name = "C" -> 0 [] name = "D" -> 2 [] name = "E" -> 4
                   [] name = "F" -> 5 [] name = "G" -> 7 [] name = "A" -> 9
                   [] name = "B" -> 11
        note1 == CASE accidental = "Sharp" -> note0 + 1
                   [] accidental = "Flat" -> note0 - 1
                   [] accidental = "Natural" -> note0
        note == note1 + (octave * 12)
    IN  IF ~(note >= 0 /\ note <= 127)
        THEN [panic |-> "Note out of range", key |-> 0]
        ELSE [panic |-> "", key |-> u7(note)]

midi_note(name, accidental, octave) ==
    LET note0 == CASE name = "C" -> 0 [] name = "D" -> 2 [] name = "E" -> 4
                   [] name = "F" -> 5 [] name = "G" -> 7 [] name = "A" -> 9
                   [] name = "B" -> 11
        note1 == CASE accidental = "Sharp" -> note0 + 1
                   [] accidental = "Flat" -> note0 - 1
                   [] accidental = "Natural" -> note0
        oct == octave + 2
        note == note1 + (oct * 12)
    IN  IF ~(note >= 0 /\ note <= 127)
        THEN [panic |-> "Note out of range", key |-> 0]
        ELSE [panic |-> "", key |-> u7(note)]

(***************************************************************************)
(* Vec<u8> helpers: contains, sort, dedup.                                 *)
(***************************************************************************)
contains(v, x) == \E i \in 1..Len(v) : v[i] = x

RECURSIVE insert_sorted(_, _)
insert_sorted(v, x) ==
    IF v = <<>> THEN <<x>>
    ELSE IF x < Head(v) THEN <<x>> \o v
    ELSE <<Head(v)>> \o insert_sorted(Tail(v), x)

RECURSIVE sort(_)
sort(v) == IF v = <<>> THEN <<>> ELSE insert_sorted(sort(Tail(v)), Head(v))

\* Vec::dedup removes consecutive repeated elements.
RECURSIVE dedup(_)
dedup(v) ==
    IF Len(v) <= 1 THEN v
    ELSE IF v[1] = v[2] THEN dedup(Tail(v))
    ELSE <<v[1]>> \o dedup(Tail(v))

(***************************************************************************)
(* midi.rs: midi_named_chord.  root is a u7, so the u8 sums stay below 256.*)
(***************************************************************************)
ChordName(root, root_accidental, root_octave_number, quality, extensions) ==
    [root |-> root, root_accidental |-> root_accidental,
     root_octave_number |-> root_octave_number, quality |-> quality,
     extensions |-> extensions]

scale_of(quality) ==
    CASE quality = "Major" -> MAJOR_SCALE
      [] quality = "Minor" -> MINOR_SCALE
      [] quality = "Diminished" -> DIMINISHED_SCALE
      [] quality = "Augmented" -> AUGMENTED_SCALE

\* An extension table that keeps the ninth in the octave of the root.
extension_pitch_same_octave(root, scale, e) ==
    CASE e = "Sixth" -> root + scale[6]
      [] e = "Seventh" -> root + scale[7]
      [] e = "Ninth" -> root + scale[2]
      [] e = "Eleventh" -> root + scale[4] + 12
      [] e = "Thirteenth" -> root + scale[6] + 12

\* The pitch an extension adds to a chord on `root` (scale[i] is scale[i + 1]).
extension_pitch(root, scale, e) ==
    CASE e = "Sixth" -> root + scale[6]
      [] e = "Seventh" -> root + scale[7]
      [] e = "Ninth" -> root + scale[2] + 12
      [] e = "Eleventh" -> root + scale[4] + 12
      [] e = "Thirteenth" -> root + scale[6] + 12

RECURSIVE push_each(_, _, _, _)
push_each(chord, root, scale, extensions) ==
    IF extensions = <<>> THEN chord
    ELSE push_each(Append(chord, extension_pitch(root, scale, Head(extensions))),
                   root, scale, Tail(extensions))

\* A chord builder that pushes one pitch per entry of the extension list and
\* leaves out the sort and dedup.
midi_named_chord_per_entry(chord) ==
    LET r == midi_note(chord.root, chord.root_accidental, chord.root_octave_number)
        root == r.key
        scale == scale_of(chord.quality)
    IN  IF ~Returned(r) THEN [panic |-> r.panic, notes |-> <<>>]
        ELSE [panic |-> "",
              notes |-> push_each(<<root, root + scale[3], root + scale[5]>>,
                                  root, scale, chord.extensions)]

\* One `if chord.extensions.contains(&e) { notes.push(..) }` of midi_named_chord.
push_if_contains(notes, extensions, root, scale, e) ==
    IF contains(extensions, e) THEN Append(notes, extension_pitch(root, scale, e))
    ELSE notes

\* The notes vector of midi_named_chord before the sort: the triad, then the
\* pushes in the order of the source.
chord_pushes(root, scale, extensions) ==
    push_if_contains(
        push_if_contains(
            push_if_contains(
                push_if_contains(
                    push_if_contains(<<root, root + scale[3], root + scale[5]>>,
                                     extensions, root, scale, "Sixth"),
                    extensions, root, scale, "Seventh"),
                extensions, root, scale, "Ninth"),
            extensions, root, scale, "Eleventh"),
        extensions, root, scale, "Thirteenth")

midi_named_chord(chord) ==
    LET r == midi_note(chord.root, chord.root_accidental, chord.root_octave_number)
    IN  IF ~Returned(r) THEN [panic |-> r.panic, notes |-> <<>>]
        ELSE [panic |-> "",
              notes |-> dedup(sort(chord_pushes(r.key, scale_of(chord.quality),
                                                chord.extensions)))]

(***************************************************************************)
(* syntax.rs: NoteLength::ticks.  u32 arithmetic; within the bar counts    *)
(* and numerators of the model no product leaves the u32 range.            *)
(***************************************************************************)
ticks_per_measure_style(self, ticks_per_beat, time_signature) ==
    CASE self.kind = "SixtyFourth" -> [panic |-> "", ticks |-> ticks_per_beat \div 16]
      [] self.kind = "ThirtySecond" -> [panic |-> "", ticks |-> ticks_per_beat \div 8]
      [] self.kind = "Sixteenth" -> [panic |-> "", ticks |-> ticks_per_beat \div 4]
      [] self.kind = "Eighth" -> [panic |-> "", ticks |-> ticks_per_beat \div 2]
      [] self.kind = "Quarter" -> [panic |-> "", ticks |-> ticks_per_beat]
      [] self.kind = "Half" -> [panic |-> "", ticks |-> ticks_per_beat * 2]
      [] self.kind = "Whole" -> [panic |-> "", ticks |-> ticks_per_beat * 4]
      [] self.kind = "Bars" ->
            [panic |-> "",
             ticks |-> self.bars * ((time_signature.numerator * ticks_per_beat)
                                        \div time_signature.denominator)]

ticks(self, ticks_per_beat, time_signature) ==
    CASE self.kind = "SixtyFourth" -> [panic |-> "", ticks |-> ticks_per_beat \div 16]
      [] self.kind = "ThirtySecond" -> [panic |-> "", ticks |-> ticks_per_beat \div 8]
      [] self.kind = "Sixteenth" -> [panic |-> "", ticks |-> ticks_per_beat \div 4]
      [] self.kind = "Eighth" -> [panic |-> "", ticks |-> ticks_per_beat \div 2]
      [] self.kind = "Quarter" -> [panic |-> "", ticks |-> ticks_per_beat]
      [] self.kind = "Half" -> [panic |-> "", ticks |-> ticks_per_beat * 2]
      [] self.kind = "Whole" -> [panic |-> "", ticks |-> ticks_per_beat * 4]
      [] self.kind = "Bars" ->
            LET d == time_signature.denominator
                known == d \in {1, 2, 4, 8, 16, 32, 64}
                denominator_ticks ==
                    CASE d = 1 -> ticks_per_beat * 4
                      [] d = 2 -> ticks_per_beat * 2
                      [] d = 4 -> ticks_per_beat
                      [] d = 8 -> ticks_per_beat \div 2
                      [] d = 16 -> ticks_per_beat \div 4
                      [] d = 32 -> ticks_per_beat \div 8
                      [] d = 64 -> ticks_per_beat \div 16
                      [] OTHER -> 0
            IN  IF ~known THEN [panic |-> "Unsupported denominator", ticks |-> 0]
                ELSE [panic |-> "",
                      ticks |-> denominator_ticks * self.bars * time_signature.numerator]

(***************************************************************************)
(* syntax.rs: the logos tokenizer.  logos returns the longest match at     *)
(* each offset and breaks ties by priority (Flat, priority 4, over         *)
(* NoteName, priority 3, on "b").                                          *)
(***************************************************************************)
WhitespaceChars == {" ", "\t", "\n", "\f"}
DigitChars == {"0", "1", "2", "3", "4", "5", "6", "7", "8", "9"}
NoteNameChars == {"A", "B", "C", "D", "E", "F", "G",
                  "a", "b", "c", "d", "e", "f", "g"}

SpannedToken(token, start, end) == [token |-> token, start |-> start, end |-> end]

\* The source text of a span (SpannedToken::slice, SpannedParsingError::slice).
slice(text, span) == SubSeq(text, span.start + 1, span.end)

starts_with(text, at, literal) ==
    /\ at + Len(literal) <= Len(text)
    /\ \A k \in 1..Len(literal) : text[at + k] = literal[k]

\* The end of the maximal run of characters of `class` that starts at `at`.
RECURSIVE run_end(_, _, _)
run_end(text, at, class) ==
    IF at < Len(text) /\ text[at + 1] \in class
    THEN run_end(text, at + 1, class)
    ELSE at

\* The `z` rule of the Rest token, which parser.rs dispatches on.
rest_rule(text, at) == IF starts_with(text, at, <<"z">>) THEN 1 ELSE 0

\* The token kind and length matched at offset `at`; length 0 when no rule
\* matches.
next_token(text, at) ==
    LET c == text[at + 1]
        lit(l) == starts_with(text, at, l)
        m(token, len) == [token |-> token, len |-> len]
    IN  CASE c \in WhitespaceChars -> m("Whitespace", run_end(text, at, WhitespaceChars) - at)
          [] c \in DigitChars -> m("Number", run_end(text, at, DigitChars) - at)
          [] lit(<<"t", "e", "m", "p", "o">>) -> m("Tempo", 5)
          [] lit(<<"t", "i", "m", "e">>) -> m("Time", 4)
          [] lit(<<"a", "d", "d", "1", "1">>) -> m("ChordExtension", 5)
          [] lit(<<"a", "d", "d", "1", "3">>) -> m("ChordExtension", 5)
          [] lit(<<"a", "d", "d", "9">>) -> m("ChordExtension", 4)
          [] lit(<<"m", "a", "j">>) -> m("ChordQuality", 3)
          [] lit(<<"m", "i", "n">>) -> m("ChordQuality", 3)
          [] lit(<<"d", "i", "m">>) -> m("ChordQuality", 3)
          [] lit(<<"a", "u", "g">>) -> m("ChordQuality", 3)
          [] c = "b" -> m("Flat", 1)
          [] c \in NoteNameChars -> m("NoteName", 1)
          [] c = "#" -> m("Sharp", 1)
          [] c = ":" -> m("Colon", 1)
          [] c = "|" -> m("Bar", 1)
          [] c = "/" -> m("Slash", 1)
          [] c = "\\" -> m("Backslash", 1)
          [] c = "{" -> m("OBrace", 1)
          [] c = "}" -> m("CBrace", 1)
          [] c = "[" -> m("OBracket", 1)
          [] c = "]" -> m("CBracket", 1)
          [] rest_rule(text, at) > 0 -> m("Rest", rest_rule(text, at))
          [] OTHER -> m("", 0)

\* Token::lexer(input).spanned(), collected as parse does: the tokens, or the
\* span of the first slice that matches no rule.
RECURSIVE lexer(_, _, _)
lexer(text, at, toks) ==
    IF at >= Len(text) THEN [ok |-> TRUE, tokens |-> toks, start |-> 0, end |-> 0]
    ELSE LET t == next_token(text, at)
         IN  IF t.len = 0
             THEN [ok |-> FALSE, tokens |-> toks, start |-> at, end |-> at + 1]
             ELSE lexer(text, at + t.len,
                        Append(toks, SpannedToken(t.token, at, at + t.len)))

(***************************************************************************)
(* parser.rs: line_column and the spanned errors.                          *)
(***************************************************************************)
RECURSIVE line_column_from(_, _, _, _, _)
line_column_from(text, index, i, line, column) ==
    IF i < Len(text)
    THEN IF i = index THEN <<line, column>>
         ELSE IF text[i + 1] = "\n"
              THEN line_column_from(text, index, i + 1, line + 1, 1)
              ELSE line_column_from(text, index, i + 1, line, column + 1)
    ELSE IF index = Len(text) THEN <<line, column>> ELSE <<>>

\* Option<(u32, u32)>: <<>> is None.
line_column(text, index) == line_column_from(text, index, 0, 1, 1)

NoError == [error |-> "", detail |-> "", start |-> 0, end |-> 0, line |-> 0, column |-> 0]

\* ParsingError::spanned / spanned_from_token / unexpected_token.  `detail` is
\* the payload of the error: the token kind of UnexpectedToken, "0" for
\* InvalidNoteLength(0).
spanned(error, detail, text, span) ==
    LET lc == line_column(text, span.start)
    IN  [error |-> error, detail |-> detail, start |-> span.start, end |-> span.end,
         line |-> lc[1], column |-> lc[2]]

(***************************************************************************)
(* parser.rs: TokenStream.  A stream value s carries the input, the tokens *)
(* and the cursor; every operation returns a result with the new cursor.   *)
(***************************************************************************)
Stream(text, toks, cur) ==
    [input |-> text, tokens |-> toks, current |-> cur]
at_cursor(s, cur) == [s EXCEPT !.current = cur]

Ok(cur, val) == [ok |-> TRUE, panic |-> "", current |-> cur, val |-> val, err |-> NoError]
Err(cur, err) == [ok |-> FALSE, panic |-> "", current |-> cur, val |-> <<>>, err |-> err]
Panicked(cur, msg) == [ok |-> FALSE, panic |-> msg, current |-> cur, val |-> <<>>, err |-> NoError]
\* The `?` operator: an error or panic result carried to the caller.
Failed(r) == [ok |-> FALSE, panic |-> r.panic, current |-> r.current, val |-> <<>>, err |-> r.err]

is_eoi(s) == s.current >= Len(s.tokens)

\* The Eoi error is spanned with the span of tokens[0].
eoi_error(s) == spanned("Eoi", "", s.input, s.tokens[1])

bump(s) ==
    IF s.current >= Len(s.tokens)
    THEN IF s.tokens = <<>> THEN Panicked(s.current, "index out of bounds")
         ELSE Err(s.current, eoi_error(s))
    ELSE Ok(s.current + 1, s.tokens[s.current + 1])

peek(s) ==
    IF s.current >= Len(s.tokens)
    THEN IF s.tokens = <<>> THEN Panicked(s.current, "index out of bounds")
         ELSE Err(s.current, eoi_error(s))
    ELSE Ok(s.current, s.tokens[s.current + 1])

unexpected_token(s, token) == spanned("UnexpectedToken", token.token, s.input, token)

\* The `?` operator on a result r: an Ok result goes on into Then, an error
\* or a panic is returned to the caller.
Try(r, Then(_)) == IF r.ok THEN Then(r) ELSE Failed(r)

\* An expect that keeps the cursor past the token it rejects.
expect_no_backtrack(s, expected) ==
    Try(bump(s), LAMBDA token:
        IF token.val.token = expected THEN token
        ELSE Err(token.current, unexpected_token(s, token.val)))

expect(s, expected) ==
    Try(bump(s), LAMBDA token:
        IF token.val.token = expected THEN token
        ELSE Err(token.current - 1, unexpected_token(s, token.val)))

\* skip_whitespace returns nothing: the result is the new cursor.
skip_whitespace(s) ==
    LET token == peek(s)
    IN  IF token.ok /\ token.val.token = "Whitespace" THEN s.current + 1 ELSE s.current

(***************************************************************************)
(* parser.rs: the checkpoint stack of TokenStream.  Each operation takes   *)
(* the cursor and the stack and returns both after the call, with the      *)
(* returned depth in val.                                                  *)
(***************************************************************************)
Checkpointed(cur, cps, val) ==
    [panic |-> "", current |-> cur, checkpoints |-> cps, val |-> val]

push_checkpoint(cur, cps) ==
    Checkpointed(cur, Append(cps, cur), Len(cps) + 1)

\* A pop that discards the checkpoint and leaves the cursor where it is.
pop_checkpoint_discard(cur, cps) ==
    IF cps # <<>>
    THEN Checkpointed(cur, SubSeq(cps, 1, Len(cps) - 1), Len(cps) - 1)
    ELSE Checkpointed(cur, cps, Len(cps))

pop_checkpoint(cur, cps) ==
    IF cps # <<>>
    THEN Checkpointed(cps[Len(cps)], SubSeq(cps, 1, Len(cps) - 1), Len(cps) - 1)
    ELSE Checkpointed(cur, cps, Len(cps))

reset_to_checkpoint(cur, cps, checkpoint) ==
    IF checkpoint < Len(cps)
    THEN Checkpointed(cps[checkpoint + 1], cps, <<>>)
    ELSE Checkpointed(cur, cps, <<>>)

\* truncate(checkpoint) leaves `checkpoint` entries, so the read of
\* self.checkpoints[checkpoint] that follows it is out of bounds.
pop_to_checkpoint(cur, cps, checkpoint) ==
    IF checkpoint < Len(cps)
    THEN [panic |-> "index out of bounds", current |-> cur,
          checkpoints |-> SubSeq(cps, 1, checkpoint), val |-> <<>>]
    ELSE Checkpointed(cur, cps, Len(cps))

(***************************************************************************)
(* str::parse for u8, u32 and i32 on a run of digits.  The value is built  *)
(* digit by digit; it overflows the type when it would exceed              *)
(* limit_div_10 * 10 + limit_mod_10.                                       *)
(***************************************************************************)
digit_value(c) ==
    CASE c = "0" -> 0 [] c = "1" -> 1 [] c = "2" -> 2 [] c = "3" -> 3 [] c = "4" -> 4
      [] c = "5" -> 5 [] c = "6" -> 6 [] c = "7" -> 7 [] c = "8" -> 8 [] c = "9" -> 9

RECURSIVE parse_digits(_, _, _, _)
parse_digits(digits, value, limit_div_10, limit_mod_10) ==
    IF digits = <<>> THEN <<value>>
    ELSE LET d == digit_value(Head(digits))
         IN  IF value > limit_div_10 \/ (value = limit_div_10 /\ d > limit_mod_10)
             THEN <<>>
             ELSE parse_digits(Tail(digits), value * 10 + d, limit_div_10, limit_mod_10)

\* Result<T, ParseIntError>: <<>> is Err.
parse_u8(digits) == parse_digits(digits, 0, 25, 5)
parse_u32(digits) == parse_digits(digits, 0, 429496729, 5)
parse_i32(digits) == parse_digits(digits, 0, 214748364, 7)

(***************************************************************************)
(* syntax.rs: the FromStr implementations.  <<>> is Err(()).               *)
(***************************************************************************)
NoteName_from_str(s) ==
    IF Len(s) = 1 /\ s[1] \in NoteName THEN <<s[1]>> ELSE <<>>

NoteLength_from_str(s) ==
    CASE s = <<"6", "4">> -> <<Fixed("SixtyFourth")>>
      [] s = <<"3", "2">> -> <<Fixed("ThirtySecond")>>
      [] s = <<"1", "6">> -> <<Fixed("Sixteenth")>>
      [] s = <<"8">> -> <<Fixed("Eighth")>>
      [] s = <<"4">> -> <<Fixed("Quarter")>>
      [] s = <<"2">> -> <<Fixed("Half")>>
      [] s = <<"1">> -> <<Fixed("Whole")>>
      [] OTHER -> <<>>

ChordQuality_from_str(s) ==
    CASE s = <<"m", "a", "j">> -> <<"Major">>
      [] s = <<"m", "i", "n">> -> <<"Minor">>
      [] s = <<"d", "i", "m">> -> <<"Diminished">>
      [] s = <<"a", "u", "g">> -> <<"Augmented">>
      [] OTHER -> <<>>

ChordExtension_from_str(s) ==
    CASE s = <<"a", "d", "d", "6">> -> <<"Sixth">>
      [] s = <<"a", "d", "d", "9">> -> <<"Ninth">>
      [] s = <<"a", "d", "d", "1", "1">> -> <<"Eleventh">>
      [] s = <<"a", "d", "d", "1", "3">> -> <<"Thirteenth">>
      [] OTHER -> <<>>

(***************************************************************************)
(* parser.rs: the parse functions below parse_sequence.                    *)
(***************************************************************************)
parse_tempo(s) ==
    Try(expect(s, "Number"), LAMBDA token:
        LET tempo == parse_u32(slice(s.input, token.val))
        IN  IF tempo = <<>>
            THEN Err(token.current, spanned("ParseIntError", "", s.input, token.val))
            ELSE Ok(token.current, tempo[1]))

parse_time_signature(s) ==
    Try(expect(s, "Number"), LAMBDA t1:
        LET numerator == parse_u8(slice(s.input, t1.val))
        IN  IF numerator = <<>>
            THEN Err(t1.current, spanned("ParseIntError", "", s.input, t1.val))
            ELSE Try(expect(at_cursor(s, skip_whitespace(at_cursor(s, t1.current))),
                            "Number"), LAMBDA t2:
                 LET denominator == parse_u8(slice(s.input, t2.val))
                 IN  IF denominator = <<>>
                     THEN Err(t2.current,
                              spanned("ParseIntError", "", s.input, t2.val))
                     ELSE IF numerator[1] = 0 \/ denominator[1] = 0
                     THEN Panicked(t2.current, "unwrap on None")
                     ELSE Ok(t2.current, TimeSignature(numerator[1], denominator[1]))))

parse_note_name(s) ==
    Try(expect(s, "NoteName"), LAMBDA token:
        LET name == NoteName_from_str(slice(s.input, token.val))
        IN  IF name = <<>>
            THEN Err(token.current, spanned("InvalidNoteName", "", s.input, token.val))
            ELSE Ok(token.current, name[1]))

parse_accidental(s) ==
    Try(peek(s), LAMBDA token:
        IF token.val.token = "Sharp" THEN Ok(s.current + 1, "Sharp")
        ELSE IF token.val.token = "Flat" THEN Ok(s.current + 1, "Flat")
        ELSE Ok(s.current, "Natural"))

parse_octave_number(s) ==
    Try(expect(s, "Number"), LAMBDA token:
        LET octave == parse_i32(slice(s.input, token.val))
        IN  IF octave = <<>>
            THEN Err(token.current, spanned("ParseIntError", "", s.input, token.val))
            ELSE Ok(token.current, octave[1]))

\* A Colon arm that accepts every number and falls back to a whole note.
note_length_fixed_lenient(s) ==
    Try(expect(s, "Number"), LAMBDA token:
        LET fixed == NoteLength_from_str(slice(s.input, token.val))
        IN  IF fixed = <<>> THEN Ok(token.current, Fixed("Whole"))
            ELSE Ok(token.current, fixed[1]))

\* The Colon arm of parse_note_length, after the bump.
note_length_fixed(s) ==
    Try(expect(s, "Number"), LAMBDA token:
        LET fixed == NoteLength_from_str(slice(s.input, token.val))
        IN  IF fixed = <<>>
            THEN Err(token.current, spanned("InvalidNoteLength", "0", s.input, token.val))
            ELSE Ok(token.current, fixed[1]))

\* The Bar arm of parse_note_length, after the bump.
note_length_bars(s) ==
    Try(expect(s, "Number"), LAMBDA token:
        LET length == parse_u32(slice(s.input, token.val))
        IN  IF length = <<>>
            THEN Err(token.current, spanned("InvalidNoteLength", "0", s.input, token.val))
            ELSE Ok(token.current, Bars(length[1])))

parse_note_length(s) ==
    Try(peek(s), LAMBDA token:
        IF token.val.token = "Colon" THEN note_length_fixed(at_cursor(s, s.current + 1))
        ELSE IF token.val.token = "Bar" THEN note_length_bars(at_cursor(s, s.current + 1))
        ELSE Err(s.current, unexpected_token(s, token.val)))

SingleNote(note_name, octave_number, note_length, accidental) ==
    [event |-> "Single", note_name |-> note_name, octave_number |-> octave_number,
     note_length |-> note_length, accidental |-> accidental]
ChordNote(note_name, octave_number, accidental) ==
    [note_name |-> note_name, octave_number |-> octave_number, accidental |-> accidental]
ListChord(notes, note_length) ==
    [event |-> "ListChord", notes |-> notes, note_length |-> note_length]
NamedChord(chord_name, note_length) ==
    [event |-> "NamedChord", chord_name |-> chord_name, note_length |-> note_length]
Rest(note_length) == [event |-> "Rest", note_length |-> note_length]

parse_single_note(s) ==
    Try(parse_note_name(s), LAMBDA note_name:
    Try(parse_accidental(at_cursor(s, note_name.current)), LAMBDA accidental:
    Try(parse_octave_number(at_cursor(s, accidental.current)), LAMBDA octave_number:
    Try(parse_note_length(at_cursor(s, octave_number.current)), LAMBDA note_length:
        Ok(note_length.current,
           SingleNote(note_name.val, octave_number.val, note_length.val,
                      accidental.val))))))

\* The last arm of the loop of parse_list_chord: one chord note.
parse_chord_note(s) ==
    Try(parse_note_name(s), LAMBDA note:
    Try(parse_accidental(at_cursor(s, note.current)), LAMBDA accidental:
    Try(parse_octave_number(at_cursor(s, accidental.current)), LAMBDA octave_number:
        Ok(octave_number.current,
           ChordNote(note.val, octave_number.val, accidental.val)))))

\* The loop of parse_list_chord: the notes up to and including the `]`.
RECURSIVE parse_list_chord_notes(_, _)
parse_list_chord_notes(s, notes) ==
    Try(peek(s), LAMBDA token:
        IF token.val.token = "Whitespace"
        THEN parse_list_chord_notes(at_cursor(s, s.current + 1), notes)
        ELSE IF token.val.token = "CBracket" THEN Ok(s.current + 1, notes)
        ELSE Try(parse_chord_note(s), LAMBDA note:
                 parse_list_chord_notes(at_cursor(s, note.current),
                                        Append(notes, note.val))))

parse_list_chord(s) ==
    Try(parse_list_chord_notes(s, <<>>), LAMBDA notes:
    Try(parse_note_length(at_cursor(s, notes.current)), LAMBDA note_length:
        Ok(note_length.current, ListChord(notes.val, note_length.val))))

parse_chord_quality(s) ==
    Try(expect(s, "ChordQuality"), LAMBDA token:
        LET quality == ChordQuality_from_str(slice(s.input, token.val))
        IN  IF quality = <<>>
            THEN Err(token.current,
                     spanned("InvalidChordQuality", "", s.input, token.val))
            ELSE Ok(token.current, quality[1]))

\* The ChordExtension arm of the loop of parse_chord_extensions: Sixth when
\* the slice is one that from_str knows, else the error.
chord_extension_token(s, token) ==
    LET extension == ChordExtension_from_str(slice(s.input, token))
    IN  IF extension = <<>>
        THEN Err(s.current, spanned("InvalidChordExtension", "", s.input, token))
        ELSE Ok(s.current + 1, extension[1])

\* A loop that ends the extension list at every Number other than 7, as at a
\* token of any other kind.
RECURSIVE parse_chord_extensions_lenient(_, _)
parse_chord_extensions_lenient(s, extensions) ==
    Try(peek(s), LAMBDA token:
        IF token.val.token = "Number" /\ slice(s.input, token.val) = <<"7">>
        THEN parse_chord_extensions_lenient(at_cursor(s, s.current + 1),
                                            Append(extensions, "Seventh"))
        ELSE IF token.val.token = "ChordExtension"
        THEN Try(chord_extension_token(s, token.val), LAMBDA extension:
                 parse_chord_extensions_lenient(at_cursor(s, extension.current),
                                                Append(extensions, extension.val)))
        ELSE Ok(s.current, extensions))

RECURSIVE parse_chord_extensions_loop(_, _)
parse_chord_extensions_loop(s, extensions) ==
    Try(peek(s), LAMBDA token:
        IF token.val.token = "Number"
        THEN IF slice(s.input, token.val) = <<"7">>
             THEN parse_chord_extensions_loop(at_cursor(s, s.current + 1),
                                              Append(extensions, "Seventh"))
             ELSE Err(s.current,
                      spanned("InvalidChordExtension", "", s.input, token.val))
        ELSE IF token.val.token = "ChordExtension"
        THEN Try(chord_extension_token(s, token.val), LAMBDA extension:
                 parse_chord_extensions_loop(at_cursor(s, extension.current),
                                             Append(extensions, extension.val)))
        ELSE Ok(s.current, extensions))

parse_chord_extensions(s) == parse_chord_extensions_loop(s, <<>>)

parse_chord_name(s) ==
    Try(parse_note_name(s), LAMBDA root:
    Try(parse_accidental(at_cursor(s, root.current)), LAMBDA root_accidental:
    Try(parse_octave_number(at_cursor(s, root_accidental.current)),
        LAMBDA root_octave_number:
    Try(parse_chord_quality(at_cursor(s, root_octave_number.current)), LAMBDA quality:
    Try(parse_chord_extensions(at_cursor(s, quality.current)), LAMBDA extensions:
        Ok(extensions.current,
           ChordName(root.val, root_accidental.val, root_octave_number.val,
                     quality.val, extensions.val)))))))

parse_named_chord(s) ==
    Try(parse_chord_name(s), LAMBDA chord_name:
    Try(parse_note_length(at_cursor(s, chord_name.current)), LAMBDA note_length:
        Ok(note_length.current, NamedChord(chord_name.val, note_length.val))))

(***************************************************************************)
(* midi.rs: the track events and the body of the event loop of ast_to_midi.*)
(***************************************************************************)
MetaEvent(kind, meta) ==
    [delta |-> u28(0), kind |-> kind, channel |-> 0, key |-> 0, vel |-> 0, meta |-> meta]
NoteOn(delta, key) ==
    [delta |-> delta, kind |-> "NoteOn", channel |-> u4(0), key |-> key,
     vel |-> u7(127), meta |-> <<>>]
NoteOff(delta, key) ==
    [delta |-> delta, kind |-> "NoteOff", channel |-> u4(0), key |-> key,
     vel |-> u7(0), meta |-> <<>>]

\* What one pass of the loop body yields: the events it pushes on the track
\* and the accumulator after it, or the panic that ends the compilation.
Pushed(events, since) ==
    [panic |-> "", events |-> events, ticks_since_last_event |-> since]
Aborted(msg) == [panic |-> msg, events |-> <<>>, ticks_since_last_event |-> 0]

\* The loop over the notes of a chord.  keys[i + 1] is the result of the
\* key computation of pass i (midi_note for a list chord, u7::new for a named
\* chord); pass 0 flushes the accumulator into the first note-on, advances
\* it by the length and flushes it into the first note-off.
RECURSIVE chord_loop(_, _, _, _, _, _, _)
chord_loop(keys, i, note_length, time_signature, since, chord_events, stop_events) ==
    IF i >= Len(keys) THEN Pushed(chord_events \o stop_events, since)
    ELSE LET key == keys[i + 1]
             length == ticks(note_length, TICKS_PER_BEAT, time_signature)
         IN  IF ~Returned(key) THEN Aborted(key.panic)
             ELSE IF i = 0
             THEN IF ~Returned(length) THEN Aborted(length.panic)
                  ELSE chord_loop(keys, i + 1, note_length, time_signature, 0,
                                  Append(chord_events, NoteOn(u28(since), key.key)),
                                  Append(stop_events, NoteOff(u28(0 + length.ticks), key.key)))
             ELSE chord_loop(keys, i + 1, note_length, time_signature, since,
                             Append(chord_events, NoteOn(u28(0), key.key)),
                             Append(stop_events, NoteOff(u28(0), key.key)))

\* SeqEvent::Single
compile_single(event, time_signature, since) ==
    LET key == midi_note(event.note_name, event.accidental, event.octave_number)
        length == ticks(event.note_length, TICKS_PER_BEAT, time_signature)
    IN  IF ~Returned(key) THEN Aborted(key.panic)
        ELSE IF ~Returned(length) THEN Aborted(length.panic)
        ELSE Pushed(<<NoteOn(u28(since), key.key),
                      NoteOff(u28(0 + length.ticks), key.key)>>, 0)

\* A Rest arm that flushes the accumulator instead of advancing it.
compile_rest_dropped(event, time_signature, since) ==
    LET length == ticks(event.note_length, TICKS_PER_BEAT, time_signature)
    IN  IF ~Returned(length) THEN Aborted(length.panic)
        ELSE Pushed(<<>>, length.ticks)

\* SeqEvent::Rest
compile_rest(event, time_signature, since) ==
    LET length == ticks(event.note_length, TICKS_PER_BEAT, time_signature)
    IN  IF ~Returned(length) THEN Aborted(length.panic)
        ELSE Pushed(<<>>, since + length.ticks)

\* A ListChord arm that gives every note of the chord the flushed deltas.
compile_list_chord_staggered(event, time_signature, since) ==
    LET keys == [i \in 1..Len(event.notes) |->
                    midi_note(event.notes[i].note_name, event.notes[i].accidental,
                              event.notes[i].octave_number)]
        length == ticks(event.note_length, TICKS_PER_BEAT, time_signature)
    IN  IF \E i \in 1..Len(keys) : ~Returned(keys[i]) THEN Aborted("Note out of range")
        ELSE IF ~Returned(length) THEN Aborted(length.panic)
        ELSE Pushed([i \in 1..Len(keys) |-> NoteOn(u28(since), keys[i].key)]
                    \o [i \in 1..Len(keys) |-> NoteOff(u28(length.ticks), keys[i].key)],
                    0)

\* SeqEvent::ListChord
compile_list_chord(event, time_signature, since) ==
    LET keys == [i \in 1..Len(event.notes) |->
                    midi_note(event.notes[i].note_name, event.notes[i].accidental,
                              event.notes[i].octave_number)]
    IN  chord_loop(keys, 0, event.note_length, time_signature, since, <<>>, <<>>)

\* The keys of a named chord: `u7::new(*note)` for each note.
named_chord_keys(notes) ==
    [i \in 1..Len(notes) |-> [panic |-> "", key |-> u7(notes[i])]]

\* SeqEvent::NamedChord
compile_named_chord(event, time_signature, since) ==
    LET chord_notes == midi_named_chord(event.chord_name)
    IN  IF ~Returned(chord_notes) THEN Aborted(chord_notes.panic)
        ELSE chord_loop(named_chord_keys(chord_notes.notes), 0, event.note_length,
                        time_signature, since, <<>>, <<>>)

compile_event(event, time_signature, since) ==
    CASE event.event = "Rest" -> compile_rest(event, time_signature, since)
      [] event.event = "Single" -> compile_single(event, time_signature, since)
      [] event.event = "ListChord" -> compile_list_chord(event, time_signature, since)
      [] event.event = "NamedChord" -> compile_named_chord(event, time_signature, since)

\* The tempo of the track: the declared one, or 120.
effective_tempo(seq) == IF seq.tempo # <<>> THEN seq.tempo[1].tempo ELSE 120

\* The time signature of the track: the declared one, or 4/4.
effective_time_signature(seq) ==
    IF seq.time_signature # <<>> THEN seq.time_signature[1] ELSE TimeSignature(4, 4)

(***************************************************************************)
(* lexer/token.rs, lexer/token_stream.rs, lexer/mod.rs: the tokens of the  *)
(* expression language, the stream over them and the tokenizer.  An entry  *)
(* of the stream is a Result<Token, LexingError>: the kinds InvalidToken   *)
(* and EndOfInput are the Err(LexingError) entries, every other kind is an *)
(* Ok(Token).  A String is a sequence of characters and a number a whole   *)
(* number in the model.                                                    *)
(***************************************************************************)
Token(kind, string, number, boolean) ==
    [kind |-> kind, string |-> string, number |-> number, boolean |-> boolean]

\* bump: the entry returned, and the cursor after the call.
TokenStream_bump(s) ==
    IF s.current < Len(s.tokens)
    THEN [token |-> s.tokens[s.current + 1], current |-> s.current + 1]
    ELSE [token |-> Token("EndOfInput", <<>>, 0, FALSE), current |-> s.current]

\* peek: Option<&Result<Token, LexingError>>.
TokenStream_peek(s) ==
    IF s.current < Len(s.tokens) THEN <<s.tokens[s.current + 1]>> ELSE <<>>

is_empty(s) == s.current >= Len(s.tokens)

\* One step of the logos lexer at offset `at`: the longest match of a rule,
\* skipped or turned into a token by to_token, and the offset after it.  A
\* character that starts no rule is an error of that one character.  The
\* texts of the model hold no `"` and no `.`, so the StringLiteral rule and
\* the fraction of the Number rule never apply, and their numbers have at
\* most two digits.
lex(text, at) ==
    LET c == text[at + 1]
        skip == {" ", "\t", "\n", "\r"}
        identifier_start ==
            {"a", "b", "c", "d", "e", "f", "g", "h", "i", "j", "k", "l", "m",
             "n", "o", "p", "q", "r", "s", "t", "u", "v", "w", "x", "y", "z",
             "A", "B", "C", "D", "E", "F", "G", "H", "I", "J", "K", "L", "M",
             "N", "O", "P", "Q", "R", "S", "T", "U", "V", "W", "X", "Y", "Z", "_"}
        operator == {"+", "-", "*", "/", "=", "<", ">", "!", "&", "|"}
        followed_by(class) == at + 1 < Len(text) /\ text[at + 2] \in class
        comment_end ==
            CHOOSE end \in at..Len(text) :
                /\ end = Len(text) \/ text[end + 1] = "\n"
                /\ \A k \in (at + 1)..end : text[k] # "\n"
        skipped(end) == [skip |-> TRUE, token |-> <<>>, end |-> end]
        matched(token, end) == [skip |-> FALSE, token |-> token, end |-> end]
        lexeme(end) == SubSeq(text, at + 1, end)
        parse_f64(digits) == parse_digits(digits, 0, 214748364, 7)[1]
        Identifier(end) ==
            IF lexeme(end) \in {<<"t", "r", "u", "e">>, <<"f", "a", "l", "s", "e">>}
            THEN matched(Token("Boolean", <<>>, 0, lexeme(end) = <<"t", "r", "u", "e">>), end)
            ELSE matched(Token("Identifier", lexeme(end), 0, FALSE), end)
        Symbol(end) == matched(Token("Symbol", SubSeq(text, at + 2, end), 0, FALSE), end)
        Number(end) ==
            matched(Token("Number", <<>>, parse_f64(lexeme(end)), FALSE), end)
        Negative(end) ==
            matched(Token("Number", <<>>, 0 - parse_f64(SubSeq(text, at + 2, end)), FALSE),
                    end)
        Operator(end) == matched(Token("Operator", lexeme(end), 0, FALSE), end)
    IN  CASE c \in skip -> skipped(run_end(text, at, skip))
          [] c = ";" /\ followed_by({";"}) -> skipped(comment_end)
          [] c = "(" -> matched(Token("LeftParen", <<>>, 0, FALSE), at + 1)
          [] c = ")" -> matched(Token("RightParen", <<>>, 0, FALSE), at + 1)
          [] c \in identifier_start ->
                Identifier(run_end(text, at, identifier_start \cup DigitChars))
          [] c = ":" /\ followed_by(identifier_start) ->
                Symbol(run_end(text, at + 1, identifier_start \cup DigitChars))
          [] c \in DigitChars -> Number(run_end(text, at, DigitChars))
          [] c = "-" /\ followed_by(DigitChars) -> Negative(run_end(text, at + 1, DigitChars))
          [] c \in operator /\ ~(c = "-" /\ followed_by(DigitChars)) ->
                Operator(run_end(text, at, operator))
          [] OTHER -> matched(Token("InvalidToken", <<c>>, 0, FALSE), at + 1)

\* tokenize: `for (kind, span) in lexer`, from offset `at` on, with the
\* Vec tokens filled so far.
RECURSIVE tokenize(_, _, _)
tokenize(text, at, toks) ==
    IF at >= Len(text) THEN [tokens |-> toks, current |-> 0]
    ELSE LET step == lex(text, at)
         IN  tokenize(text, step.end, IF step.skip THEN toks ELSE Append(toks, step.token))

(***************************************************************************)
(* parser/syntax.rs, parser/mod.rs: the syntax tree and the parser of the  *)
(* expression language.  A parse function returns Ok(val) or Err(err)      *)
(* together with the cursor it leaves in the stream; err is the entry of   *)
(* the stream the error is about: ParsingError::LexingError for an Err     *)
(* entry and ParsingError::UnexpectedToken otherwise.                      *)
(***************************************************************************)
Syntax(syntax, string, number, boolean, elements) ==
    [syntax |-> syntax, string |-> string, number |-> number, boolean |-> boolean,
     elements |-> elements]

RECURSIVE parse_expression(_)
RECURSIVE parse_list_unclosed(_, _)
RECURSIVE parse_list(_, _)

\* A parse_list that leaves the right parenthesis in the stream.
parse_list_unclosed(s, elements) ==
    IF is_empty(s) THEN Ok(s.current, Syntax("List", <<>>, 0, FALSE, elements))
    ELSE IF TokenStream_peek(s) = <<Token("RightParen", <<>>, 0, FALSE)>>
    THEN Ok(s.current, Syntax("List", <<>>, 0, FALSE, elements))
    ELSE LET element == parse_expression(s)
         IN  IF ~element.ok THEN element
             ELSE parse_list_unclosed([s EXCEPT !.current = element.current],
                                      Append(elements, element.val))

\* parse_list: `while !input.is_empty()`, with the Vec elements filled so
\* far.
parse_list(s, elements) ==
    IF is_empty(s) THEN Ok(s.current, Syntax("List", <<>>, 0, FALSE, elements))
    ELSE IF TokenStream_peek(s) = <<Token("RightParen", <<>>, 0, FALSE)>>
    THEN Ok(TokenStream_bump(s).current, Syntax("List", <<>>, 0, FALSE, elements))
    ELSE LET element == parse_expression(s)
         IN  IF ~element.ok THEN element
             ELSE parse_list([s EXCEPT !.current = element.current],
                             Append(elements, element.val))

parse_expression(s) ==
    LET b == TokenStream_bump(s)
        token == b.token
    IN  IF token.kind \in {"InvalidToken", "EndOfInput"} THEN Err(b.current, token)
        ELSE IF token.kind = "LeftParen"
        THEN parse_list([s EXCEPT !.current = b.current], <<>>)
        ELSE IF token.kind \in {"Identifier", "Symbol", "Operator", "Boolean", "Number"}
        THEN Ok(b.current,
                Syntax(token.kind, token.string, token.number, token.boolean, <<>>))
        ELSE Err(b.current, token)

\* parse: `while !input.is_empty()`, with the Vec syntax_tree filled so far.
RECURSIVE parse(_, _)
parse(s, syntax_tree) ==
    IF is_empty(s) THEN Ok(s.current, syntax_tree)
    ELSE LET syntax == parse_expression(s)
         IN  IF ~syntax.ok THEN syntax
             ELSE parse([s EXCEPT !.current = syntax.current],
                        Append(syntax_tree, syntax.val))

parse_str(text) == parse(tokenize(text, 0, <<>>), <<>>)

(***************************************************************************)
(* vm/value.rs, vm/mod.rs: the values and the Runtime of the expression    *)
(* interpreter.  A method returns Ok(value) or Err(err) together with the  *)
(* Runtime it leaves; err is the variant of RuntimeError, without its      *)
(* message.  println! of print is not modelled.                            *)
(***************************************************************************)
Value(type, number, boolean, string, elements) ==
    [type |-> type, number |-> number, boolean |-> boolean, string |-> string,
     elements |-> elements]

\* Runtime::new().  A HashMap is the set of its entries [name, value].
Runtime_new == [variables |-> {}, functions |-> {}, call_stack |-> <<>>]

Ok_Value(rt, value) == [ok |-> TRUE, value |-> value, err |-> "", rt |-> rt]
Err_RuntimeError(rt, err) ==
    [ok |-> FALSE, value |-> Value("Null", 0, FALSE, <<>>, <<>>), err |-> err, rt |-> rt]

\* The last two lines of execute_builtin_function, for the value of its
\* match: `self.call_stack.pop(); value`.
call_stack_pop(value) ==
    [value EXCEPT !.rt.call_stack = IF @ = <<>> THEN @ ELSE SubSeq(@, 1, Len(@) - 1)]

RECURSIVE execute(_, _)

\* execute, the List arm whose first element is no name: `for element in
\* elements`.
RECURSIVE execute_elements(_, _, _)
execute_elements(rt, elements, values) ==
    IF elements = <<>> THEN Ok_Value(rt, Value("List", 0, FALSE, <<>>, values))
    ELSE LET value == execute(rt, Head(elements))
         IN  IF ~value.ok THEN value
             ELSE execute_elements(value.rt, Tail(elements), Append(values, value.value))

\* The arms "print", "+" and "*" of execute_builtin_function: `for arg in
\* arguments`, with the sum or product so far.  A failed `?` and the
\* `return Err(..)` leave the function at once; the value of the arm goes
\* on to the pop.
RECURSIVE builtin_loop(_, _, _, _)
builtin_loop(rt, function, arguments, acc) ==
    IF arguments = <<>>
    THEN IF function = <<"p", "r", "i", "n", "t">>
         THEN call_stack_pop(Ok_Value(rt, Value("Null", 0, FALSE, <<>>, <<>>)))
         ELSE call_stack_pop(Ok_Value(rt, Value("Number", acc, FALSE, <<>>, <<>>)))
    ELSE LET value == execute(rt, Head(arguments))
         IN  IF ~value.ok THEN value
             ELSE IF function = <<"p", "r", "i", "n", "t">>
             THEN builtin_loop(value.rt, function, Tail(arguments), acc)
             ELSE IF value.value.type # "Number"
             THEN Err_RuntimeError(value.rt, "TypeError")
             ELSE IF function = <<"+">>
             THEN builtin_loop(value.rt, function, Tail(arguments),
                               acc + value.value.number)
             ELSE builtin_loop(value.rt, function, Tail(arguments),
                               acc * value.value.number)

\* The arms "-", "/", "==" and "!=": the count of the arguments, the two
\* arguments in turn, then the operation.  a / b is a whole number for the
\* programs of the model, which divide by 1 and -1 only.
builtin_binary(rt, function, arguments) ==
    IF Len(arguments) # 2 THEN Err_RuntimeError(rt, "TypeError")
    ELSE LET a == execute(rt, arguments[1])
         IN  IF ~a.ok THEN a
             ELSE LET b == execute(a.rt, arguments[2])
                      numbers == a.value.type = "Number" /\ b.value.type = "Number"
                      x == a.value.number
                      y == b.value.number
                      Number(value) ==
                          call_stack_pop(Ok_Value(b.rt, Value("Number", value, FALSE, <<>>, <<>>)))
                      Boolean(value) ==
                          call_stack_pop(Ok_Value(b.rt, Value("Boolean", 0, value, <<>>, <<>>)))
                  IN  IF ~b.ok THEN b
                      ELSE CASE function = <<"=", "=">> -> Boolean(a.value = b.value)
                             [] function = <<"!", "=">> -> Boolean(a.value # b.value)
                             [] function = <<"-">> /\ numbers -> Number(x - y)
                             [] function = <<"/">> /\ numbers /\ y = 0 ->
                                    Err_RuntimeError(b.rt, "DivisionByZero")
                             [] function = <<"/">> /\ numbers /\ y > 0 -> Number(x \div y)
                             [] function = <<"/">> /\ numbers /\ y < 0 ->
                                    Number((0 - x) \div (0 - y))
                             [] OTHER -> call_stack_pop(Err_RuntimeError(b.rt, "TypeError"))

execute_builtin_function(rt, function, arguments) ==
    LET pushed == [rt EXCEPT !.call_stack = Append(@, function)]
    IN  CASE function = <<"p", "r", "i", "n", "t">> ->
                builtin_loop(pushed, function, arguments, 0)
          [] function = <<"+">> -> builtin_loop(pushed, function, arguments, 0)
          [] function = <<"*">> -> builtin_loop(pushed, function, arguments, 1)
          [] function \in {<<"-">>, <<"/">>, <<"=", "=">>, <<"!", "=">>} ->
                builtin_binary(pushed, function, arguments)
          [] OTHER -> call_stack_pop(Err_RuntimeError(pushed, "Other"))

execute_function(rt, function, arguments) ==
    call_stack_pop(Err_RuntimeError([rt EXCEPT !.call_stack = Append(@, function)], "Other"))

execute(rt, syntax) ==
    LET name == syntax.elements[1].string
        arguments == Tail(syntax.elements)
        variable == {entry \in rt.variables : entry.name = name}
        builtin == execute_builtin_function(rt, name, arguments)
        function == execute_function(builtin.rt, name, arguments)
    IN  CASE syntax.syntax = "Number" ->
                Ok_Value(rt, Value("Number", syntax.number, FALSE, <<>>, <<>>))
          [] syntax.syntax = "Boolean" ->
                Ok_Value(rt, Value("Boolean", 0, syntax.boolean, <<>>, <<>>))
          [] syntax.syntax = "Symbol" ->
                Ok_Value(rt, Value("Symbol", 0, FALSE, syntax.string, <<>>))
          [] syntax.syntax = "String" ->
                Ok_Value(rt, Value("String", 0, FALSE, syntax.string, <<>>))
          [] syntax.syntax = "List" ->
                IF syntax.elements = <<>>
                THEN Ok_Value(rt, Value("Null", 0, FALSE, <<>>, <<>>))
                ELSE IF syntax.elements[1].syntax \notin {"Identifier", "Operator"}
                THEN execute_elements(rt, syntax.elements, <<>>)
                ELSE IF variable # {}
                THEN Ok_Value(rt, (CHOOSE entry \in variable : TRUE).value)
                ELSE IF builtin.ok \/ builtin.err # "UndefinedFunction" THEN builtin
                ELSE IF function.ok \/ function.err # "UndefinedFunction" THEN function
                ELSE Err_RuntimeError(function.rt, "UndefinedIdentifier")
          [] OTHER -> Err_RuntimeError(rt, "Other")

\* execute_str: `for syntax in syntax_tree`.
RECURSIVE execute_str_loop(_, _, _)
execute_str_loop(rt, syntax_tree, result) ==
    IF syntax_tree = <<>> THEN Ok_Value(rt, result)
    ELSE LET value == execute(rt, Head(syntax_tree))
         IN  IF ~value.ok THEN value
             ELSE execute_str_loop(value.rt, Tail(syntax_tree), value.value)

execute_str(rt, text) ==
    LET syntax_tree == parse_str(text)
    IN  IF ~syntax_tree.ok THEN Err_RuntimeError(rt, "ParsingError")
        ELSE execute_str_loop(rt, syntax_tree.val, Value("Null", 0, FALSE, <<>>, <<>>))

(***************************************************************************)
(* The inputs of the pipeline.                                             *)
(***************************************************************************)
\* Items of a sequence body, each followed by a space.
SequenceItems ==
    {
      \* C4:4
      <<"C", "4", ":", "4", " ">>,
      \* z|1
      <<"z", "|", "1", " ">>,
      \* [C4 E4 G4]:4
      <<"[", "C", "4", " ", "E", "4", " ", "G", "4", "]", ":", "4", " ">>,
      \* \C4maj7:4
      <<"\\", "C", "4", "m", "a", "j", "7", ":", "4", " ">>,
      \* tempo 3
      <<"t", "e", "m", "p", "o", " ", "3", " ">>,
      \* time 3 4
      <<"t", "i", "m", "e", " ", "3", " ", "4", " ">>,
      \* []:8
      <<"[", "]", ":", "8", " ">>,
      \* \G8maj|1
      <<"\\", "G", "8", "m", "a", "j", "|", "1", " ">>,
      \* Bb3|2
      <<"B", "b", "3", "|", "2", " ">>,
      \* C9:4
      <<"C", "9", ":", "4", " ">>
    }

\* How the text goes on after the items.
SequenceEndings ==
    {
      \* }
      <<"}">>,
      \* (the sequence is left open)
      <<>>,
      \* C4:3 }
      <<"C", "4", ":", "3", " ", "}">>,
      \* C4: (the input ends in a duration)
      <<"C", "4", ":">>,
      \* tempo 0 }
      <<"t", "e", "m", "p", "o", " ", "0", " ", "}">>,
      \* tempo 4 G8:64 }
      <<"t", "e", "m", "p", "o", " ", "4", " ", "G", "8", ":", "6", "4", " ", "}">>,
      \* time 0 4 }
      <<"t", "i", "m", "e", " ", "0", " ", "4", " ", "}">>,
      \* time 4 3 z|1 }
      <<"t", "i", "m", "e", " ", "4", " ", "3", " ", "z", "|", "1", " ", "}">>,
      \* x }
      <<"x", " ", "}">>,
      \* \C4maj8:4 }
      <<"\\", "C", "4", "m", "a", "j", "8", ":", "4", " ", "}">>,
      \* \C4majadd6:4 }
      <<"\\", "C", "4", "m", "a", "j", "a", "d", "d", "6", ":", "4", " ", "}">>,
      \* c4:4 }
      <<"c", "4", ":", "4", " ", "}">>,
      \* [C4 C9]:2 }
      <<"[", "C", "4", " ", "C", "9", "]", ":", "2", " ", "}">>,
      \* } { C4:4 }
      <<"}", " ", "{", " ", "C", "4", ":", "4", " ", "}">>,
      \* (newline) C4:3 }
      <<"\n", " ", "C", "4", ":", "3", " ", "}">>,
      \* tempo 120 time 6 8 \E4min7|1 z|1 \C4majadd9add11add13|1 }
      <<"t", "e", "m", "p", "o", " ", "1", "2", "0", " ", "t", "i", "m", "e", " ", "6", " ", "8", " ", "\\", "E", "4", "m", "i", "n", "7", "|", "1", " ", "z", "|", "1", " ", "\\", "C", "4", "m", "a", "j", "a", "d", "d", "9", "a", "d", "d", "1", "1", "a", "d", "d", "1", "3", "|", "1", " ", "}">>,
      \* C4:12 }
      <<"C", "4", ":", "1", "2", " ", "}">>,
      \* F#2:0 }
      <<"F", "#", "2", ":", "0", " ", "}">>,
      \* tempo 300 time 256 4 }
      <<"t", "e", "m", "p", "o", " ", "3", "0", "0", " ", "t", "i", "m", "e", " ", "2", "5", "6", " ", "4", " ", "}">>,
      \* time 2 4 }
      <<"t", "i", "m", "e", " ", "2", " ", "4", " ", "}">>
    }

\* Inputs that do not open a sequence.
OtherInputs ==
    {
      \* the empty input
      <<>>,
      \* white space only
      <<" ", "\n">>,
      \* C4:4 outside a sequence
      <<"C", "4", ":", "4">>
    }

RECURSIVE Bodies(_)
Bodies(n) ==
    IF n = 0 THEN {<<>>}
    ELSE LET shorter == Bodies(n - 1)
         IN  shorter \cup {b \o i : b \in shorter, i \in SequenceItems}

Inputs ==
    {<<"{", " ">> \o b \o e : b \in Bodies(MaxEvents), e \in SequenceEndings}
        \cup OtherInputs

(***************************************************************************)
(* Spec: parse, then ast_to_midi, on one input.  parse is stepped by the   *)
(* passes of its loops, ast_to_midi by the passes of its event loop.       *)
(***************************************************************************)
Root(statements) == [statements |-> statements]
Sequence(tempo, time_signature, notes) ==
    [tempo |-> tempo, time_signature |-> time_signature, notes |-> notes]
Tempo(tempo) == [tempo |-> tempo]

NoResult == [status |-> "", panic |-> "", err |-> NoError, track |-> <<>>]
\* parse returned Err(e): there is no Root and nothing is compiled.
ParseError(e) == [status |-> "Err", panic |-> "", err |-> e, track |-> <<>>]
\* The thread panicked: nothing is returned.
Panic(msg) == [status |-> "Panic", panic |-> msg, err |-> NoError, track |-> <<>>]
\* ast_to_midi returned Ok(midi), midi.tracks = [track].
Compiled(t) == [status |-> "Ok", panic |-> "", err |-> NoError, track |-> t]

\* The outcome of a parse function that did not return Ok.
ParseFailure(r) == IF r.panic # "" THEN Panic(r.panic) ELSE ParseError(r.err)

stream == Stream(input, tokens, current)

Init ==
    /\ input \in Inputs
    /\ pc = "tokenize"
    /\ tokens = <<>>
    /\ current = 0
    /\ checkpoints = <<>>
    /\ ast = Root(<<>>)
    /\ sequence = Sequence(<<>>, <<>>, <<>>)
    /\ track = <<>>
    /\ ticks_since_last_event = 0
    /\ event_index = 0
    /\ out = NoResult
    /\ call = [fn |-> ""]
    /\ ret = <<>>
    /\ history = <<>>
    /\ runtime = Runtime_new

\* parse: the tokens are collected; the first lexing error ends the parse.
Tokenize ==
    /\ pc = "tokenize"
    /\ LET l == lexer(input, 0, <<>>)
       IN  IF l.ok
           THEN /\ tokens' = l.tokens
                /\ pc' = "parse"
                /\ out' = out
           ELSE /\ tokens' = tokens
                /\ pc' = "done"
                /\ out' = ParseError(spanned("LexingError", "", input, l))
    /\ current' = 0
    /\ checkpoints' = <<>>
    /\ ast' = Root(<<>>)
    /\ UNCHANGED <<input, sequence, track, ticks_since_last_event, event_index>>
    /\ UNCHANGED fnVars

\* parse: one pass of `while !token_stream.is_eoi()`, or the return of the
\* Root when the tokens are used up.
ParseStatement ==
    /\ pc = "parse"
    /\ LET t == peek(stream)
       IN  IF is_eoi(stream)
           THEN /\ pc' = "ast_to_midi"
                /\ UNCHANGED <<current, sequence, out>>
           ELSE IF t.val.token = "Whitespace"
           THEN /\ current' = bump(stream).current
                /\ UNCHANGED <<pc, sequence, out>>
           ELSE IF t.val.token = "OBrace"
           THEN /\ current' = bump(stream).current
                /\ sequence' = Sequence(<<>>, <<>>, <<>>)
                /\ pc' = "parse_sequence"
                /\ UNCHANGED out
           ELSE /\ pc' = "done"
                /\ out' = ParseError(unexpected_token(stream, t.val))
                /\ UNCHANGED <<current, sequence>>
    /\ UNCHANGED <<input, tokens, checkpoints, ast, track, ticks_since_last_event,
                   event_index>>
    /\ UNCHANGED fnVars

\* A pass of parse_sequence that keeps the first tempo and the first time
\* signature declared and drops the later ones.
sequence_pass_first_wins(s, seq) ==
    LET t == peek(s)
        after == at_cursor(s, s.current + 1)
        go(cur, sq, closed) == [ok |-> TRUE, current |-> cur, sequence |-> sq,
                                closed |-> closed, failure |-> NoResult]
        fail(f) == [ok |-> FALSE, current |-> s.current, sequence |-> seq,
                    closed |-> FALSE, failure |-> f]
        item(r, sq) == IF r.ok THEN go(r.current, sq, FALSE) ELSE fail(ParseFailure(r))
        push(r) == item(r, [seq EXCEPT !.notes = Append(@, r.val)])
        ws == expect(after, "Whitespace")
        tempo == parse_tempo(at_cursor(s, ws.current))
        time_signature == parse_time_signature(at_cursor(s, ws.current))
        rest == parse_note_length(after)
    IN  IF ~t.ok THEN fail(ParseFailure(t))
        ELSE CASE t.val.token = "Whitespace" -> go(s.current + 1, seq, FALSE)
               [] t.val.token = "CBrace" -> go(s.current + 1, seq, TRUE)
               [] t.val.token = "Tempo" ->
                    IF ~ws.ok THEN fail(ParseFailure(ws))
                    ELSE item(tempo, [seq EXCEPT !.tempo = IF @ # <<>> THEN @ ELSE <<Tempo(tempo.val)>>])
               [] t.val.token = "Time" ->
                    IF ~ws.ok THEN fail(ParseFailure(ws))
                    ELSE item(time_signature,
                              [seq EXCEPT !.time_signature =
                                           IF @ # <<>> THEN @ ELSE <<time_signature.val>>])
               [] t.val.token = "Backslash" -> push(parse_named_chord(after))
               [] t.val.token = "OBracket" -> push(parse_list_chord(after))
               [] t.val.token = "NoteName" -> push(parse_single_note(s))
               [] t.val.token = "Rest" ->
                    item(rest, [seq EXCEPT !.notes = Append(@, Rest(rest.val))])
               [] OTHER -> fail(ParseError(unexpected_token(s, t.val)))

\* What one pass of the loop of parse_sequence does on the token it peeks:
\* the cursor after it, the sequence after it, whether the loop breaks, or
\* the failure it returns.
sequence_pass(s, seq) ==
    LET t == peek(s)
        after == at_cursor(s, s.current + 1)
        go(cur, sq, closed) == [ok |-> TRUE, current |-> cur, sequence |-> sq,
                                closed |-> closed, failure |-> NoResult]
        fail(f) == [ok |-> FALSE, current |-> s.current, sequence |-> seq,
                    closed |-> FALSE, failure |-> f]
        item(r, sq) == IF r.ok THEN go(r.current, sq, FALSE) ELSE fail(ParseFailure(r))
        push(r) == item(r, [seq EXCEPT !.notes = Append(@, r.val)])
        ws == expect(after, "Whitespace")
        tempo == parse_tempo(at_cursor(s, ws.current))
        time_signature == parse_time_signature(at_cursor(s, ws.current))
        rest == parse_note_length(after)
    IN  IF ~t.ok THEN fail(ParseFailure(t))
        ELSE CASE t.val.token = "Whitespace" -> go(s.current + 1, seq, FALSE)
               [] t.val.token = "CBrace" -> go(s.current + 1, seq, TRUE)
               [] t.val.token = "Tempo" ->
                    IF ~ws.ok THEN fail(ParseFailure(ws))
                    ELSE item(tempo, [seq EXCEPT !.tempo = <<Tempo(tempo.val)>>])
               [] t.val.token = "Time" ->
                    IF ~ws.ok THEN fail(ParseFailure(ws))
                    ELSE item(time_signature,
                              [seq EXCEPT !.time_signature = <<time_signature.val>>])
               [] t.val.token = "Backslash" -> push(parse_named_chord(after))
               [] t.val.token = "OBracket" -> push(parse_list_chord(after))
               [] t.val.token = "NoteName" -> push(parse_single_note(s))
               [] t.val.token = "Rest" ->
                    item(rest, [seq EXCEPT !.notes = Append(@, Rest(rest.val))])
               [] OTHER -> fail(ParseError(unexpected_token(s, t.val)))

\* parse_sequence: one pass of its loop.  On `}` the sequence is returned
\* to parse, which pushes it on the statements of the Root.
ParseSequenceEvent ==
    /\ pc = "parse_sequence"
    /\ \E p \in {sequence_pass(stream, sequence)} :
           IF ~p.ok
           THEN /\ pc' = "done"
                /\ out' = p.failure
                /\ UNCHANGED <<current, sequence, ast>>
           ELSE /\ current' = p.current
                /\ sequence' = p.sequence
                /\ out' = out
                /\ IF p.closed
                   THEN /\ ast' = Root(Append(ast.statements, p.sequence))
                        /\ pc' = "parse"
                   ELSE /\ ast' = ast
                        /\ pc' = pc
    /\ UNCHANGED <<input, tokens, checkpoints, track, ticks_since_last_event, event_index>>
    /\ UNCHANGED fnVars

\* ast_to_midi up to the event loop: statements[0], the tempo and the time
\* signature meta events.
AstToMidi ==
    /\ pc = "ast_to_midi"
    /\ IF ast.statements = <<>>
       THEN /\ pc' = "done"
            /\ out' = Panic("index out of bounds")
            /\ track' = track
       ELSE LET notes == ast.statements[1]
                tempo == effective_tempo(notes)
                time_signature == effective_time_signature(notes)
            IN  IF tempo = 0
                THEN /\ pc' = "done"
                     /\ out' = Panic("attempt to divide by zero")
                     /\ track' = track
                ELSE /\ pc' = "events"
                     /\ out' = out
                     /\ track' = << MetaEvent("Tempo", <<u24(60000000 \div tempo)>>),
                                    MetaEvent("TimeSignature",
                                              <<time_signature.numerator,
                                                time_signature.denominator, 36, 8>>) >>
    /\ ticks_since_last_event' = 0
    /\ event_index' = 0
    /\ UNCHANGED <<input, tokens, current, checkpoints, ast, sequence>>
    /\ UNCHANGED fnVars

\* ast_to_midi: one pass of `for event in notes.notes.iter()`.
CompileEvent ==
    /\ pc = "events"
    /\ event_index < Len(ast.statements[1].notes)
    /\ \E c \in {compile_event(ast.statements[1].notes[event_index + 1],
                               effective_time_signature(ast.statements[1]),
                               ticks_since_last_event)} :
           IF ~Returned(c)
           THEN /\ pc' = "done"
                /\ out' = Panic(c.panic)
                /\ UNCHANGED <<track, ticks_since_last_event, event_index>>
           ELSE /\ track' = track \o c.events
                /\ ticks_since_last_event' = c.ticks_since_last_event
                /\ event_index' = event_index + 1
                /\ UNCHANGED <<pc, out>>
    /\ UNCHANGED <<input, tokens, current, checkpoints, ast, sequence>>
    /\ UNCHANGED fnVars

\* ast_to_midi after the loop: the end-of-track event, and Ok(midi).
EndOfTrack ==
    /\ pc = "events"
    /\ event_index = Len(ast.statements[1].notes)
    /\ track' = Append(track, MetaEvent("EndOfTrack", <<>>))
    /\ out' = Compiled(track')
    /\ pc' = "done"
    /\ UNCHANGED <<input, tokens, current, checkpoints, ast, sequence,
                   ticks_since_last_event, event_index>>
    /\ UNCHANGED fnVars

Next ==
    \/ Tokenize
    \/ ParseStatement
    \/ ParseSequenceEvent
    \/ AstToMidi
    \/ CompileEvent
    \/ EndOfTrack

Spec == Init /\ [][Next]_vars

(***************************************************************************)
(* SpecFn: the pure functions applied to arguments drawn from the bounds.  *)
(***************************************************************************)
Octaves == (0 - MinOctaveBelow)..MaxOctave
ExtensionLists == UNION {[1..n -> ChordExtension] : n \in 0..MaxExtensions}
Denominators == {1, 2, 3, 4, 8, 16, 32, 64}
TicksPerBeatValues == {24, TICKS_PER_BEAT, 100}

NoteCalls ==
    {[fn |-> "midi_note", name |-> n, accidental |-> a, octave |-> o] :
        n \in NoteName, a \in Accidental, o \in Octaves}
ChordCalls ==
    {[fn |-> "midi_named_chord", chord |-> ChordName(n, a, o, q, e)] :
        n \in NoteName, a \in Accidental, o \in Octaves, q \in ChordQuality,
        e \in ExtensionLists}
TicksCalls ==
    {[fn |-> "ticks", self |-> l, ticks_per_beat |-> t,
      time_signature |-> TimeSignature(num, den)] :
        l \in NoteLength, t \in TicksPerBeatValues, num \in 1..MaxNumerator,
        den \in Denominators}

\* parse on the streams of the tokens of `(`, `)`, `x`, `1` and of a
\* character no rule matches.
ParseCalls ==
    LET entries == {Token("LeftParen", <<>>, 0, FALSE), Token("RightParen", <<>>, 0, FALSE),
                    Token("Identifier", <<"x">>, 0, FALSE), Token("Number", <<>>, 1, FALSE),
                    Token("InvalidToken", <<"?">>, 0, FALSE)}
    IN  {[fn |-> "parse", input |-> [tokens |-> toks, current |-> 0]] :
            toks \in UNION {[1..n -> entries] : n \in 0..MaxTokens}}

InitFn ==
    /\ \/ call \in NoteCalls \cup ChordCalls \cup TicksCalls
       \/ call \in ParseCalls
    /\ ret = <<>>
    /\ history = <<>>
    /\ runtime = Runtime_new
    /\ input = <<>>
    /\ pc = "done"
    /\ tokens = <<>>
    /\ current = 0
    /\ checkpoints = <<>>
    /\ ast = [statements |-> <<>>]
    /\ sequence = [tempo |-> <<>>, time_signature |-> <<>>, notes |-> <<>>]
    /\ track = <<>>
    /\ ticks_since_last_event = 0
    /\ event_index = 0
    /\ out = [status |-> "", panic |-> "", err |-> NoError, track |-> <<>>]

ApplyMidiNote ==
    /\ ret = <<>>
    /\ call.fn = "midi_note"
    /\ ret' = midi_note(call.name, call.accidental, call.octave)
    /\ UNCHANGED <<call, history, runtime>>
    /\ UNCHANGED pipeVars

ApplyMidiNamedChord ==
    /\ ret = <<>>
    /\ call.fn = "midi_named_chord"
    /\ ret' = midi_named_chord(call.chord)
    /\ UNCHANGED <<call, history, runtime>>
    /\ UNCHANGED pipeVars

ApplyTicks ==
    /\ ret = <<>>
    /\ call.fn = "ticks"
    /\ ret' = ticks(call.self, call.ticks_per_beat, call.time_signature)
    /\ UNCHANGED <<call, history, runtime>>
    /\ UNCHANGED pipeVars

ApplyParse ==
    /\ ret = <<>>
    /\ call.fn = "parse"
    /\ ret' = parse(call.input, <<>>)
    /\ UNCHANGED <<call, history, runtime>>
    /\ UNCHANGED pipeVars

NextFn == ApplyMidiNote \/ ApplyMidiNamedChord \/ ApplyTicks \/ ApplyParse

SpecFn == InitFn /\ [][NextFn]_vars

(***************************************************************************)
(* SpecTs: the operations of TokenStream called in any order on the tokens *)
(* of a short text.                                                        *)
(***************************************************************************)
\* The empty text, `{ C` and `add97 8`.
StreamInputs ==
    { <<>>, <<"{", " ", "C">>, <<"a", "d", "d", "9", "7", " ", "8">> }

ExpectedTokens == {"Whitespace", "OBrace", "Number"}

\* &mut self before the call.
self == [current |-> current, checkpoints |-> checkpoints]

\* An entry of history.
Pushed_at(cur) == [op |-> "push", current |-> cur]
Popped_at(cur) == [op |-> "pop", current |-> cur]

InitTs ==
    /\ input \in StreamInputs
    /\ tokens = lexer(input, 0, <<>>).tokens
    /\ pc = "stream"
    /\ current = 0
    /\ checkpoints = <<>>
    /\ call = [fn |-> ""]
    /\ ret = <<>>
    /\ history = <<>>
    /\ runtime = Runtime_new
    /\ ast = Root(<<>>)
    /\ sequence = Sequence(<<>>, <<>>, <<>>)
    /\ track = <<>>
    /\ ticks_since_last_event = 0
    /\ event_index = 0
    /\ out = NoResult

\* What a call on the stream leaves behind: the cursor, the stack, the
\* result, and a dead stream when it panicked.
Called(c, r, cur, cps) ==
    /\ call' = c
    /\ ret' = r
    /\ current' = cur
    /\ checkpoints' = cps
    /\ pc' = IF r.panic # "" THEN "done" ELSE pc
    /\ UNCHANGED <<input, tokens, ast, sequence, track, ticks_since_last_event,
                   event_index, out, runtime>>

Bump ==
    /\ pc = "stream"
    /\ \E r \in {bump(stream)} :
           Called([fn |-> "bump", self |-> self], r, r.current, checkpoints)
    /\ UNCHANGED history

Peek ==
    /\ pc = "stream"
    /\ \E r \in {peek(stream)} :
           Called([fn |-> "peek", self |-> self], r, r.current, checkpoints)
    /\ UNCHANGED history

Expect ==
    /\ pc = "stream"
    /\ \E expected \in ExpectedTokens :
           \E r \in {expect(stream, expected)} :
               Called([fn |-> "expect", expected |-> expected, self |-> self],
                      r, r.current, checkpoints)
    /\ UNCHANGED history

\* skip_whitespace peeks first, and peek panics on a stream without tokens.
SkipWhitespace ==
    /\ pc = "stream"
    /\ \E r \in {peek(stream)} :
           IF r.panic # ""
           THEN Called([fn |-> "skip_whitespace", self |-> self], r, current, checkpoints)
           ELSE Called([fn |-> "skip_whitespace", self |-> self],
                       Checkpointed(skip_whitespace(stream), checkpoints, <<>>),
                       skip_whitespace(stream), checkpoints)
    /\ UNCHANGED history

PushCheckpoint ==
    /\ pc = "stream"
    /\ Len(checkpoints) < MaxCheckpoints
    /\ Len(history) < MaxStackCalls
    /\ \E r \in {push_checkpoint(current, checkpoints)} :
           Called([fn |-> "push_checkpoint", self |-> self], r, r.current, r.checkpoints)
    /\ history' = Append(history, Pushed_at(current))

PopCheckpoint ==
    /\ pc = "stream"
    /\ Len(history) < MaxStackCalls
    /\ \E r \in {pop_checkpoint(current, checkpoints)} :
           Called([fn |-> "pop_checkpoint", self |-> self], r, r.current, r.checkpoints)
    /\ history' = Append(history, Popped_at(current))

ResetToCheckpoint ==
    /\ pc = "stream"
    /\ \E checkpoint \in 0..MaxCheckpoints :
           \E r \in {reset_to_checkpoint(current, checkpoints, checkpoint)} :
               Called([fn |-> "reset_to_checkpoint", checkpoint |-> checkpoint,
                       self |-> self], r, r.current, r.checkpoints)
    /\ UNCHANGED history

PopToCheckpoint ==
    /\ pc = "stream"
    /\ \E checkpoint \in 0..MaxCheckpoints :
           \E r \in {pop_to_checkpoint(current, checkpoints, checkpoint)} :
               Called([fn |-> "pop_to_checkpoint", checkpoint |-> checkpoint,
                       self |-> self], r, r.current, r.checkpoints)
    /\ UNCHANGED history

\* A parse function called on the stream: fn parse_chord_extensions(
\* token_stream: &mut TokenStream).
ParseChordExtensions ==
    /\ pc = "stream"
    /\ \E r \in {parse_chord_extensions(stream)} :
           Called([fn |-> "parse_chord_extensions", self |-> self], r, r.current,
                  checkpoints)
    /\ UNCHANGED history

NextTs ==
    \/ Bump
    \/ Peek
    \/ Expect
    \/ SkipWhitespace
    \/ PushCheckpoint
    \/ PopCheckpoint
    \/ ResetToCheckpoint
    \/ PopToCheckpoint
    \/ ParseChordExtensions

SpecTs == InitTs /\ [][NextTs]_vars

(***************************************************************************)
(* Properties of the pure functions, checked under SpecFn.                 *)
(***************************************************************************)
Range(s) == {s[i] : i \in 1..Len(s)}
StrictlyAscending(s) == \A i \in 1..(Len(s) - 1) : s[i] < s[i + 1]

C2_Base(n) ==
    CASE n = "C" -> 0 [] n = "D" -> 2 [] n = "E" -> 4 [] n = "F" -> 5
      [] n = "G" -> 7 [] n = "A" -> 9 [] n = "B" -> 11
C2_Adj(a) == CASE a = "Sharp" -> 1 [] a = "Flat" -> -1 [] a = "Natural" -> 0
C2_Pitch(n, a, o) == C2_Base(n) + C2_Adj(a) + (o + 2) * 12
C2_InRange(p) == p >= 0 /\ p <= 127

\* C2: whenever base(N) + adj(a) + (O + 2) * 12 lies in [0,127], midi_note
\* returns exactly that pitch; and when the natural, sharp and flat pitches of
\* (N, O) are all in range, natural = sharp - 1 = flat + 1.
C2_MidiNoteFormula ==
    (call.fn = "midi_note" /\ ret # <<>>) =>
        LET p == C2_Pitch(call.name, call.accidental, call.octave)
            sharp == midi_note(call.name, "Sharp", call.octave)
            flat == midi_note(call.name, "Flat", call.octave)
        IN  /\ C2_InRange(p) => (Returned(ret) /\ ret.key = p)
            /\ ( /\ call.accidental = "Natural"
                 /\ \A a \in Accidental :
                        C2_InRange(C2_Pitch(call.name, a, call.octave)) )
               => ( /\ Returned(ret) /\ Returned(sharp) /\ Returned(flat)
                    /\ ret.key = sharp.key - 1
                    /\ ret.key = flat.key + 1 )

C2_Witness ==
    /\ call.fn = "midi_note" /\ ret # <<>>
    /\ call.name = "C" /\ call.accidental = "Natural" /\ call.octave = 4
    /\ Returned(ret) /\ ret.key = 72

C4_IsC4maj7 ==
    /\ call.fn = "midi_named_chord"
    /\ call.chord.root = "C" /\ call.chord.root_accidental = "Natural"
    /\ call.chord.root_octave_number = 4 /\ call.chord.quality = "Major"
    /\ call.chord.extensions \in {<<"Seventh">>, <<"Seventh", "Seventh">>}

\* C4 as stated: the chord name C4 major with the Seventh extension, requested
\* once or twice, resolves to exactly the pitch list [60, 64, 67, 71].
C4_Original ==
    (C4_IsC4maj7 /\ ret # <<>>) =>
        (Returned(ret) /\ ret.notes = <<60, 64, 67, 71>>)

\* C4 (amended): the chord name C4 major with the Seventh extension, requested
\* once or twice, resolves to exactly the pitch list [72, 76, 79, 83], which
\* is sorted ascending: octave 4 starts at (4 + 2) * 12 = 72.
C4_C4maj7Pitches ==
    (C4_IsC4maj7 /\ ret # <<>>) =>
        (Returned(ret) /\ ret.notes = <<72, 76, 79, 83>>)

C4_Witness ==
    /\ C4_IsC4maj7 /\ ret # <<>>
    /\ call.chord.extensions = <<"Seventh", "Seventh">>
    /\ ret.notes = <<72, 76, 79, 83>>

C5_Scale(q) ==
    CASE q = "Major" -> MAJOR_SCALE [] q = "Minor" -> MINOR_SCALE
      [] q = "Diminished" -> DIMINISHED_SCALE [] q = "Augmented" -> AUGMENTED_SCALE
C5_Added(r, s, e) ==
    CASE e = "Sixth" -> r + s[6] [] e = "Seventh" -> r + s[7]
      [] e = "Ninth" -> r + s[2] + 12 [] e = "Eleventh" -> r + s[4] + 12
      [] e = "Thirteenth" -> r + s[6] + 12
C5_Expected(r, s, exts) ==
    {r, r + s[3], r + s[5]} \cup {C5_Added(r, s, e) : e \in exts}

\* C5: whenever midi_named_chord returns, its list is strictly ascending and
\* its elements are the triad on the root pitch r plus one pitch per member
\* of the SET of requested extensions (order and multiplicity play no part).
C5_ChordIsSetOfExtensions ==
    (call.fn = "midi_named_chord" /\ ret # <<>> /\ Returned(ret)) =>
        LET c == call.chord
            r == midi_note(c.root, c.root_accidental, c.root_octave_number).key
        IN  /\ StrictlyAscending(ret.notes)
            /\ Range(ret.notes) = C5_Expected(r, C5_Scale(c.quality), Range(c.extensions))

C5_Witness ==
    /\ call.fn = "midi_named_chord" /\ ret # <<>> /\ Returned(ret)
    /\ call.chord.extensions = <<"Ninth", "Sixth">>
    /\ call.chord.quality = "Minor"
    /\ call.chord.root = "E" /\ call.chord.root_accidental = "Natural"
    /\ call.chord.root_octave_number = 4
    /\ ret.notes = <<76, 79, 83, 84, 90>>

C8_Divisor(kind) ==
    CASE kind = "Whole" -> 1 [] kind = "Half" -> 2 [] kind = "Quarter" -> 4
      [] kind = "Eighth" -> 8 [] kind = "Sixteenth" -> 16
      [] kind = "ThirtySecond" -> 32 [] kind = "SixtyFourth" -> 64

\* C8: ticks(tpb, ts) is 4 * tpb / n for the fixed length written :n, and
\* b * numerator * (4 * tpb / denominator) for Bars(b) under a denominator in
\* {1,2,4,8,16,32,64}; Bars(1) is 288 under 3/4 and 384 under 4/4 at tpb = 96.
C8_TicksFormula ==
    (call.fn = "ticks" /\ ret # <<>>) =>
        LET tpb == call.ticks_per_beat
            ts == call.time_signature
        IN  /\ call.self.kind # "Bars" =>
                /\ Returned(ret)
                /\ ret.ticks = (4 * tpb) \div C8_Divisor(call.self.kind)
            /\ (call.self.kind = "Bars" /\ ts.denominator \in {1, 2, 4, 8, 16, 32, 64}) =>
                /\ Returned(ret)
                /\ ret.ticks = call.self.bars * ts.numerator
                                  * ((4 * tpb) \div ts.denominator)
            /\ (call.self = Bars(1) /\ tpb = 96 /\ ts = TimeSignature(3, 4)) =>
                ret.ticks = 288
            /\ (call.self = Bars(1) /\ tpb = 96 /\ ts = TimeSignature(4, 4)) =>
                ret.ticks = 384
            /\ (call.self.kind = "SixtyFourth" /\ tpb = 96) => ret.ticks = 6

C8_Witness ==
    /\ call.fn = "ticks" /\ ret # <<>>
    /\ call.self = Bars(2) /\ call.ticks_per_beat = 96
    /\ call.time_signature = TimeSignature(6, 8)
    /\ ret.ticks = 576

(***************************************************************************)
(* Properties of the pipeline, checked under Spec.                         *)
(***************************************************************************)
NoteEvents(t) == SelectSeq(t, LAMBDA e : e.kind \in {"NoteOn", "NoteOff"})
NoteOns(t) == SelectSeq(t, LAMBDA e : e.kind = "NoteOn")
Deltas(t) == [i \in 1..Len(t) |-> t[i].delta]

\* { C4:4 }
C1_Input == <<"{", " ", "C", "4", ":", "4", " ", "}">>

C1_OnePairAt(key) ==
    (input = C1_Input /\ pc = "done") =>
        /\ out.status = "Ok"
        /\ LET n == NoteEvents(out.track)
           IN  /\ Len(n) = 2
               /\ n[1].kind = "NoteOn" /\ n[1].key = key
               /\ n[2].kind = "NoteOff" /\ n[2].key = key
               /\ n[2].delta = TICKS_PER_BEAT
               /\ TICKS_PER_BEAT = 96

\* C1 as stated: compiling { C4:4 } yields exactly one note-on/note-off pair,
\* both at pitch 60, and the delta of the note-off is ticks-per-beat (96).
C1_Original == C1_OnePairAt(60)

\* C1 (amended): compiling { C4:4 } yields exactly one note-on/note-off pair,
\* both at pitch 72 = 0 + (4 + 2) * 12, and the delta of the note-off is
\* ticks-per-beat (96).
C1_OnePairAtPitch72 == C1_OnePairAt(72)

C1_Witness ==
    /\ input = C1_Input /\ pc = "done" /\ out.status = "Ok"
    /\ Deltas(NoteEvents(out.track)) = <<0, 96>>

C3_Pitch(n) == C2_Pitch(n.note_name, n.accidental, n.octave_number)
C3_OutOfRange(e) ==
    \/ e.event = "Single" /\ ~C2_InRange(C3_Pitch(e))
    \/ e.event = "ListChord" /\ \E j \in 1..Len(e.notes) : ~C2_InRange(C3_Pitch(e.notes[j]))

\* parse returned Ok(ast) and ast_to_midi ran on a first sequence that holds
\* a single note or a list-chord note with a pitch outside [0,127].
C3_CompiledOutOfRange ==
    /\ pc = "done"
    /\ out.status \in {"Ok", "Panic"}
    /\ out.panic # "unwrap on None"
    /\ ast.statements # <<>>
    /\ \E i \in 1..Len(ast.statements[1].notes) :
           C3_OutOfRange(ast.statements[1].notes[i])

\* C3: when a single note or a list-chord note of the sequence has a pitch
\* below 0 or above 127, compilation fails with the pitch-range error and no
\* event is returned, not even those of earlier in-range notes.
C3_OutOfRangeIsPitchRangeError ==
    C3_CompiledOutOfRange =>
        (out.status = "Panic" /\ out.panic = "Note out of range" /\ out.track = <<>>)

\* The tick length of a note length, by the formula of C8 at 96 ticks per beat.
C6_Ticks(len, ts) ==
    IF len.kind = "Bars"
    THEN len.bars * ts.numerator * ((4 * 96) \div ts.denominator)
    ELSE (4 * 96) \div C8_Divisor(len.kind)

C6_Signature(seq) ==
    IF seq.time_signature = <<>> THEN [numerator |-> 4, denominator |-> 4]
    ELSE seq.time_signature[1]

\* The ticks accumulated before event i of the sequence: the lengths of the
\* rests since the last event that emitted anything.
RECURSIVE C6_Gap(_, _)
C6_Gap(seq, i) ==
    IF i = 1 THEN 0
    ELSE LET e == seq.notes[i - 1]
         IN  IF e.event = "Rest"
             THEN C6_Gap(seq, i - 1) + C6_Ticks(e.note_length, C6_Signature(seq))
             ELSE IF e.event = "ListChord" /\ e.notes = <<>> THEN C6_Gap(seq, i - 1)
             ELSE 0

\* The number of pitches of a chord event.
C6_Pitches(e) ==
    IF e.event = "ListChord" THEN Len(e.notes)
    ELSE Cardinality(C5_Expected(
             C2_Pitch(e.chord_name.root, e.chord_name.root_accidental,
                      e.chord_name.root_octave_number),
             C5_Scale(e.chord_name.quality), Range(e.chord_name.extensions)))

\* The loop of ast_to_midi has compiled the event at event_index.
C6_EventCompiled ==
    /\ pc = "events"
    /\ event_index < Len(ast.statements[1].notes)
    /\ event_index' = event_index + 1

C6_Step ==
    ( /\ C6_EventCompiled
      /\ ast.statements[1].notes[event_index + 1].event \in {"ListChord", "NamedChord"}
      /\ C6_Pitches(ast.statements[1].notes[event_index + 1]) >= 1 )
    => LET seq == ast.statements[1]
           e == seq.notes[event_index + 1]
           k == C6_Pitches(e)
           d == C6_Gap(seq, event_index + 1)
           L == C6_Ticks(e.note_length, C6_Signature(seq))
           new == SubSeq(track', Len(track) + 1, Len(track'))
       IN  /\ Len(new) = 2 * k
           /\ \A i \in 1..k :
                  /\ new[i].kind = "NoteOn"
                  /\ new[i].delta = (IF i = 1 THEN d ELSE 0)
                  /\ new[k + i].kind = "NoteOff"
                  /\ new[k + i].delta = (IF i = 1 THEN L ELSE 0)

\* C6: a list chord or named chord with k >= 1 pitches and tick length L adds
\* to the track k note-ons with deltas (d, 0, ..., 0) and then k note-offs
\* with deltas (L, 0, ..., 0), d being the ticks accumulated since the last
\* emitted event (0 when the chord is the first event).
C6_ChordDeltas == [][C6_Step]_vars

\* { [C4 E4 G4]:4 }: on-deltas (0,0,0), off-deltas (96,0,0).
C6_Witness ==
    /\ input = <<"{", " ", "[", "C", "4", " ", "E", "4", " ", "G", "4", "]", ":", "4",
                 " ", "}">>
    /\ pc = "done" /\ out.status = "Ok"
    /\ Deltas(NoteEvents(out.track)) = <<0, 0, 0, 96, 0, 0>>

\* { z|1 C4:4 }
C7_Input == <<"{", " ", "z", "|", "1", " ", "C", "4", ":", "4", " ", "}">>

C7_Step ==
    /\ C6_EventCompiled =>
           LET seq == ast.statements[1]
               e == seq.notes[event_index + 1]
           IN  /\ e.event = "Rest" =>
                      /\ track' = track
                      /\ ticks_since_last_event' =
                             ticks_since_last_event
                                 + C6_Ticks(e.note_length, C6_Signature(seq))
               /\ Len(track') > Len(track) =>
                      /\ track'[Len(track) + 1].kind = "NoteOn"
                      /\ track'[Len(track) + 1].delta = C6_Gap(seq, event_index + 1)
    /\ (input = C7_Input /\ pc' = "done") =>
           /\ out'.status = "Ok"
           /\ Deltas(NoteOns(out'.track)) = <<384>>

\* C7: a rest adds no event to the track and only advances the accumulator
\* by its tick length; the first note-on added after a run of rests has as
\* its delta the sum of the lengths of those rests; { z|1 C4:4 } under the
\* default 4/4 produces exactly one note-on, with delta 384.
C7_RestsOnlyAdvance == [][C7_Step]_vars

C7_Witness ==
    /\ input = C7_Input /\ pc = "done" /\ out.status = "Ok"
    /\ Deltas(NoteEvents(out.track)) = <<384, 96>>

C9_Token(i) == IF i >= 1 /\ i <= Len(tokens) THEN tokens[i].token ELSE ""
C9_Slice(i) == slice(input, tokens[i])
\* The index in tokens of the octave number of the note at the cursor.
C9_Octave == IF C9_Token(current + 2) \in {"Sharp", "Flat"} THEN current + 3 ELSE current + 2
C9_Lengths ==
    {<<"1">>, <<"2">>, <<"4">>, <<"8">>, <<"1", "6">>, <<"3", "2">>, <<"6", "4">>}

\* parse_sequence is at a note, name, accidental and octave well-formed, whose
\* duration is :<n> with n not one of 1, 2, 4, 8, 16, 32, 64.
C9_NoteWithInvalidDuration ==
    /\ pc = "parse_sequence"
    /\ C9_Token(current + 1) = "NoteName"
    /\ C9_Slice(current + 1) \in {<<n>> : n \in NoteName}
    /\ C9_Token(C9_Octave) = "Number"
    /\ Len(C9_Slice(C9_Octave)) <= 9
    /\ C9_Token(C9_Octave + 1) = "Colon"
    /\ C9_Token(C9_Octave + 2) = "Number"
    /\ C9_Slice(C9_Octave + 2) \notin C9_Lengths

C9_Step ==
    C9_NoteWithInvalidDuration =>
        /\ pc' = "done"
        /\ out'.status = "Err"
        /\ out'.err.error = "InvalidNoteLength"
        /\ slice(input, out'.err) = C9_Slice(C9_Octave + 2)
        /\ out'.track = <<>>
        /\ ast' = ast

\* C9: parsing a note whose duration is :<n>, n not one of 1, 2, 4, 8, 16, 32,
\* 64, fails with an InvalidNoteLength error whose span covers exactly the
\* digits of n, and parse returns that error and no Root.
C9_InvalidNoteLength == [][C9_Step]_vars

\* { C4:3 }: the reported slice is "3".
C9_Witness ==
    /\ input = <<"{", " ", "C", "4", ":", "3", " ", "}">>
    /\ pc = "done"
    /\ out.status = "Err" /\ out.err.error = "InvalidNoteLength"
    /\ slice(input, out.err) = <<"3">>

\* C10: for every tempo the parser accepted, the tempo meta event
\* of the track carries exactly 60,000,000 / BPM (500,000 without a tempo
\* declaration), and that value is below 2^24.
C10_TempoMetaFits ==
    (pc \in {"events", "done"} /\ track # <<>>) =>
        LET seq == ast.statements[1]
            bpm == IF seq.tempo = <<>> THEN 120 ELSE seq.tempo[1].tempo
        IN  /\ track[1].kind = "Tempo"
            /\ track[1].meta = <<60000000 \div bpm>>
            /\ seq.tempo = <<>> => track[1].meta = <<500000>>
            /\ 60000000 \div bpm < 2 ^ 24

\* The exponent e with 2^e = d, as Option: <<>> when d is not a power of two.
C11_Exponent(d) ==
    IF \E e \in 0..7 : 2 ^ e = d THEN <<CHOOSE e \in 0..7 : 2 ^ e = d>> ELSE <<>>

\* C11: the time-signature meta event of the track carries (numerator, e, 36,
\* 8), e being the exponent with 2^e = the active denominator: (4, 2, 36, 8)
\* for the default 4/4, (6, 3, 36, 8) for 6/8.
C11_TimeSignatureExponent ==
    (pc \in {"events", "done"} /\ track # <<>>) =>
        LET seq == ast.statements[1]
            ts == IF seq.time_signature = <<>> THEN [numerator |-> 4, denominator |-> 4]
                  ELSE seq.time_signature[1]
            e == C11_Exponent(ts.denominator)
        IN  /\ track[2].kind = "TimeSignature"
            /\ e # <<>> => track[2].meta = <<ts.numerator, e[1], 36, 8>>
            /\ seq.time_signature = <<>> => track[2].meta = <<4, 2, 36, 8>>

\* The elements of a finite set of numbers in ascending order.
RECURSIVE C12_Ascending(_)
C12_Ascending(S) ==
    IF S = {} THEN <<>>
    ELSE LET least == CHOOSE x \in S : \A y \in S : x <= y
         IN  <<least>> \o C12_Ascending(S \ {least})

\* The pitches of a SeqEvent in the order the claim gives them: declaration
\* order for a list chord, ascending order for a named chord.
C12_Keys(e) ==
    CASE e.event = "Rest" -> <<>>
      [] e.event = "Single" -> <<C3_Pitch(e)>>
      [] e.event = "ListChord" -> [j \in 1..Len(e.notes) |-> C3_Pitch(e.notes[j])]
      [] e.event = "NamedChord" ->
            C12_Ascending(C5_Expected(
                C2_Pitch(e.chord_name.root, e.chord_name.root_accidental,
                         e.chord_name.root_octave_number),
                C5_Scale(e.chord_name.quality), Range(e.chord_name.extensions)))

\* The note events of a SeqEvent as <<kind, key>>: its note-on group, then
\* its note-off group.
C12_Group(e) ==
    [j \in 1..Len(C12_Keys(e)) |-> <<"NoteOn", C12_Keys(e)[j]>>]
        \o [j \in 1..Len(C12_Keys(e)) |-> <<"NoteOff", C12_Keys(e)[j]>>]

\* The groups of the first n events, in source order.
RECURSIVE C12_Groups(_, _)
C12_Groups(notes, n) ==
    IF n = 0 THEN <<>> ELSE C12_Groups(notes, n - 1) \o C12_Group(notes[n])

\* C12: the track that ast_to_midi returns is a tempo meta event (delta 0), a
\* time-signature meta event (delta 0), the note events of each SeqEvent in
\* source order, and exactly one end-of-track event, the last; a list chord
\* gives its pitches in declaration order and a named chord in ascending
\* order, in its note-on group and in its note-off group.
C12_TrackOrder ==
    (pc = "done" /\ out.status = "Ok") =>
        LET t == out.track
            notes == ast.statements[1].notes
            middle == SubSeq(t, 3, Len(t) - 1)
        IN  /\ Len(t) >= 3
            /\ t[1].kind = "Tempo" /\ t[1].delta = 0
            /\ t[2].kind = "TimeSignature" /\ t[2].delta = 0
            /\ t[Len(t)].kind = "EndOfTrack"
            /\ \A i \in 1..Len(middle) : middle[i].kind \in {"NoteOn", "NoteOff"}
            /\ [i \in 1..Len(middle) |-> <<middle[i].kind, middle[i].key>>]
                   = C12_Groups(notes, Len(notes))

\* C13: every Root that parse returns holds exactly one Sequence statement.
\* (parse has returned Ok(ast) exactly when the pipeline stands before
\* ast_to_midi.)
C13_ExactlyOneSequence ==
    pc = "ast_to_midi" => Len(ast.statements) = 1

\* The index in tokens of the `}` that closes the first sequence, or
\* Len(tokens) + 1.
C14_Close ==
    LET closing == {i \in 1..Len(tokens) : tokens[i].token = "CBrace"}
    IN  IF closing = {} THEN Len(tokens) + 1
        ELSE CHOOSE i \in closing : \A j \in closing : i <= j

\* The index of the last token of the given kind in the first sequence, as
\* Option.
C14_Last(kind) ==
    LET found == {i \in 1..(C14_Close - 1) : tokens[i].token = kind}
    IN  IF found = {} THEN <<>>
        ELSE <<CHOOSE i \in found : \A j \in found : j <= i>>

\* The number written in token i.
C14_Number(i) == parse_u32(slice(input, tokens[i]))[1]

\* The tempo of the last `tempo` declaration in source order, or 120.
C14_Tempo ==
    IF C14_Last("Tempo") = <<>> THEN 120 ELSE C14_Number(C14_Last("Tempo")[1] + 2)

\* The time signature of the last `time` declaration in source order, or 4/4.
C14_Signature ==
    IF C14_Last("Time") = <<>> THEN [numerator |-> 4, denominator |-> 4]
    ELSE [numerator |-> C14_Number(C14_Last("Time")[1] + 2),
          denominator |-> C14_Number(C14_Last("Time")[1] + 4)]

\* The deltas of the note events of the first n events of the sequence when
\* every length is resolved under the time signature ts.
RECURSIVE C14_Deltas(_, _, _, _)
C14_Deltas(notes, n, ts, gap) ==
    IF n > Len(notes) THEN <<>>
    ELSE LET e == notes[n]
             L == C6_Ticks(e.note_length, ts)
             k == IF e.event = "Single" THEN 1
                  ELSE IF e.event = "Rest" THEN 0 ELSE C6_Pitches(e)
         IN  IF e.event = "Rest" THEN C14_Deltas(notes, n + 1, ts, gap + L)
             ELSE IF k = 0 THEN C14_Deltas(notes, n + 1, ts, gap)
             ELSE [j \in 1..(2 * k) |-> IF j = 1 THEN gap ELSE IF j = k + 1 THEN L ELSE 0]
                      \o C14_Deltas(notes, n + 1, ts, 0)

\* C14: of several tempo (time) declarations of a sequence the last in source
\* order is the effective one: the tempo meta event carries its 60,000,000 /
\* BPM (in the 24 bits of the field), the time-signature meta event its
\* numerator and denominator, and every event of the sequence, those before
\* the declaration included, has its length resolved under it.
C14_LastDeclarationWins ==
    (pc \in {"events", "done"} /\ track # <<>>) =>
        LET seq == ast.statements[1]
            compiled == SubSeq(seq.notes, 1, event_index)
        IN  /\ C14_Tempo # 0
            /\ track[1].meta = <<(60000000 \div C14_Tempo) % (2 ^ 24)>>
            /\ track[2].meta[1] = C14_Signature.numerator
            /\ track[2].meta[2] \in
                   {C14_Signature.denominator} \cup Range(C11_Exponent(C14_Signature.denominator))
            /\ Deltas(NoteEvents(track)) = C14_Deltas(compiled, 1, C14_Signature, 0)

\* { time 3 4 Bb3|2 time 2 4 }: the bar length of Bb3|2 is that of 2/4, declared
\* after it.
C14_Witness ==
    /\ pc = "done" /\ out.status = "Ok"
    /\ input = <<"{", " ", "t", "i", "m", "e", " ", "3", " ", "4", " ",
                 "B", "b", "3", "|", "2", " ",
                 "t", "i", "m", "e", " ", "2", " ", "4", " ", "}">>
    /\ Deltas(NoteEvents(out.track)) = <<0, 384>>
    /\ out.track[2].meta[1] = 2

(***************************************************************************)
(* Properties of the TokenStream operations, checked under SpecTs.         *)
(***************************************************************************)
\* C15: an expect that returns an error, whether for a token of another
\* kind or for the end of the tokens, leaves the cursor and the checkpoint
\* stack as they were before the call; an expect that succeeds moves the
\* cursor forward by exactly one token and leaves the stack alone.
C15_ExpectBacktracks ==
    (call.fn = "expect" /\ ret.panic = "") =>
        /\ checkpoints = call.self.checkpoints
        /\ ~ret.ok => current = call.self.current
        /\ ret.ok => current = call.self.current + 1

\* An expect behind a checkpoint, past the first token, that met a token of
\* another kind.
C15_Witness ==
    /\ call.fn = "expect"
    /\ ~ret.ok
    /\ ret.panic = ""
    /\ ret.err.error = "UnexpectedToken"
    /\ call.self.current > 0
    /\ call.self.checkpoints # <<>>
    /\ current = call.self.current

\* C16: pop_to_checkpoint(d) with d below the depth of the checkpoint stack
\* completes normally, sets the cursor to the position saved in checkpoint
\* d, removes the checkpoints above d (checkpoint d itself kept or not) and
\* returns the new depth; with d at or above the depth it changes nothing.
C16_PopToCheckpointRewinds ==
    call.fn = "pop_to_checkpoint" =>
        LET d == call.checkpoint
            before == call.self.checkpoints
        IN  IF d < Len(before)
            THEN /\ ret.panic = ""
                 /\ current = before[d + 1]
                 /\ checkpoints \in {SubSeq(before, 1, d), SubSeq(before, 1, d + 1)}
                 /\ ret.val = Len(checkpoints)
            ELSE /\ ret.panic = ""
                 /\ current = call.self.current
                 /\ checkpoints = before

\* The push_checkpoint call that a pop_checkpoint made after the calls
\* h[1..i] undoes: the last push not yet undone by a later pop (`open` counts
\* the pops met on the way back that undo a later push); 0 when there is
\* none.
RECURSIVE C17_MatchingPush(_, _, _)
C17_MatchingPush(h, i, open) ==
    IF i = 0 THEN 0
    ELSE IF h[i].op = "pop" THEN C17_MatchingPush(h, i - 1, open + 1)
    ELSE IF open = 0 THEN i
    ELSE C17_MatchingPush(h, i - 1, open - 1)

\* The number of checkpoints held after the calls h[1..i].
RECURSIVE C17_Depth(_, _)
C17_Depth(h, i) ==
    IF i = 0 THEN 0
    ELSE IF h[i].op = "push" THEN C17_Depth(h, i - 1) + 1
    ELSE IF C17_Depth(h, i - 1) = 0 THEN 0
    ELSE C17_Depth(h, i - 1) - 1

\* C17: checkpoints are a last-in first-out stack of cursor positions.  A
\* pop_checkpoint made after a push_checkpoint at cursor p, any calls that
\* move the cursor and any balanced push/pop pairs in between, puts the
\* cursor back at p and returns the depth held before that push; a
\* pop_checkpoint on an empty stack leaves the cursor alone and returns 0.
C17_CheckpointsAreLifo ==
    call.fn = "pop_checkpoint" =>
        LET made == SubSeq(history, 1, Len(history) - 1)
            push == C17_MatchingPush(made, Len(made), 0)
        IN  /\ (push = 0) = (call.self.checkpoints = <<>>)
            /\ push = 0 => current = call.self.current /\ ret.val = 0
            /\ push # 0 => /\ current = made[push].current
                           /\ ret.val = C17_Depth(made, push - 1)

\* Push at cursor 1, push at cursor 2, pop, and a second pop at cursor 3 that
\* goes back to cursor 1 and returns depth 0.
C17_Witness ==
    /\ call.fn = "pop_checkpoint"
    /\ [i \in 1..Len(history) |-> history[i].op] = <<"push", "push", "pop", "pop">>
    /\ history[1].current = 1
    /\ history[2].current = 2
    /\ call.self.current = 3
    /\ call.self.checkpoints = <<1>>
    /\ current = 1
    /\ ret.val = 0

\* What a token adds to an extension list: the extension of a chord-extension
\* word or of a bare 7, nothing for any other token.
C18_Extension(text, token) ==
    IF token.token = "ChordExtension" THEN ChordExtension_from_str(slice(text, token))
    ELSE IF token.token = "Number" /\ slice(text, token) = <<"7">> THEN <<"Seventh">>
    ELSE <<>>

\* The cursor of the first token at or after cursor i that adds no extension
\* (the number of tokens when there is none).
RECURSIVE C18_Stop(_, _, _)
C18_Stop(text, toks, i) ==
    IF i >= Len(toks) \/ C18_Extension(text, toks[i + 1]) = <<>> THEN i
    ELSE C18_Stop(text, toks, i + 1)

\* The extensions of the tokens from cursor i up to cursor j.
C18_Collected(text, toks, i, j) ==
    [k \in 1..(j - i) |-> C18_Extension(text, toks[i + k])[1]]

\* C18 as stated: chord-extension parsing consumes the extension tokens and
\* the bare 7s and stops without error, and without consuming it, at the
\* first token that is not one, a Number other than 7 included.
C18_Original ==
    (call.fn = "parse_chord_extensions" /\ ret.panic = "") =>
        LET stop == C18_Stop(input, tokens, call.self.current)
        IN  stop < Len(tokens) =>
                /\ ret.ok
                /\ current = stop
                /\ ret.val = C18_Collected(input, tokens, call.self.current, stop)

\* C18: chord-extension parsing consumes the extension tokens and the bare 7s;
\* at the first token that is neither it stops without error and without
\* consuming it, returning the extensions collected so far, unless that
\* token is a Number other than 7: then it fails with an
\* invalid-chord-extension error spanned with that Number.
C18_StopsAtFirstOtherToken ==
    (call.fn = "parse_chord_extensions" /\ ret.panic = "") =>
        LET stop == C18_Stop(input, tokens, call.self.current)
        IN  stop < Len(tokens) =>
                IF tokens[stop + 1].token = "Number"
                THEN /\ ~ret.ok
                     /\ ret.err.error = "InvalidChordExtension"
                     /\ ret.err.start = tokens[stop + 1].start
                ELSE /\ ret.ok
                     /\ current = stop
                     /\ ret.val = C18_Collected(input, tokens, call.self.current, stop)

\* `add97 8` from its start: add9 and 7 are taken, the white space is left.
C18_Witness ==
    /\ call.fn = "parse_chord_extensions"
    /\ call.self.current = 0
    /\ ret.ok
    /\ ret.val = <<"Ninth", "Seventh">>
    /\ current = 2
    /\ tokens[current + 1].token = "Whitespace"

(***************************************************************************)
(* Properties of chord-extension words and of parsing errors, checked      *)
(* under Spec.                                                             *)
(***************************************************************************)
C19_Words ==
    { [word |-> <<"a", "d", "d", "6">>, extension |-> "Sixth"],
      [word |-> <<"a", "d", "d", "9">>, extension |-> "Ninth"],
      [word |-> <<"a", "d", "d", "1", "1">>, extension |-> "Eleventh"],
      [word |-> <<"a", "d", "d", "1", "3">>, extension |-> "Thirteenth"] }

\* `{ \C4maj` + word + `:4 }`
C19_NamedChord(word) ==
    <<"{", " ", "\\", "C", "4", "m", "a", "j">> \o word \o <<":", "4", " ", "}">>

\* C19: each of the words add6, add9, add11 and add13 in the input is one
\* chord-extension token, which converts to Sixth, Ninth, Eleventh and
\* Thirteenth respectively; and a sequence of the one named chord \C4maj
\* followed by such a word and :4 parses to a named chord whose extensions
\* contain that extension.
C19_AddWordsAreExtensions ==
    \A w \in C19_Words :
        /\ tokens # <<>> =>
               \A i \in 0..Len(input) :
                   starts_with(input, i, w.word) =>
                       \E k \in 1..Len(tokens) :
                           /\ tokens[k] = SpannedToken("ChordExtension", i, i + Len(w.word))
                           /\ ChordExtension_from_str(slice(input, tokens[k])) = <<w.extension>>
        /\ (input = C19_NamedChord(w.word) /\ pc = "done") =>
               /\ out.status = "Ok"
               /\ Len(ast.statements) = 1
               /\ Len(ast.statements[1].notes) = 1
               /\ ast.statements[1].notes[1].event = "NamedChord"
               /\ \E k \in 1..Len(ast.statements[1].notes[1].chord_name.extensions) :
                      ast.statements[1].notes[1].chord_name.extensions[k] = w.extension

\* The number of "\n" in the first n characters of the text.
RECURSIVE C20_Newlines(_, _)
C20_Newlines(text, n) ==
    IF n = 0 THEN 0
    ELSE C20_Newlines(text, n - 1) + (IF text[n] = "\n" THEN 1 ELSE 0)

\* The number of characters between the last "\n" in the first n characters
\* of the text, or the start of the text, and character n.
RECURSIVE C20_SinceNewline(_, _)
C20_SinceNewline(text, n) ==
    IF n = 0 \/ text[n] = "\n" THEN 0
    ELSE C20_SinceNewline(text, n - 1) + 1

\* The span of an error is the span of the token that made the parser fail:
\* a token at or after the cursor of the statement or sequence item being
\* parsed; for a lexing error, text that is in the input; for an unexpected
\* end of input, where no token is left, the span does not lie before the
\* last token.
C20_OffendingSpan(e) ==
    IF e.error = "LexingError" THEN e.start < e.end /\ e.end <= Len(input)
    ELSE IF e.error = "Eoi" THEN e.start >= tokens[Len(tokens)].start
    ELSE \E k \in (current + 1)..Len(tokens) :
             tokens[k].start = e.start /\ tokens[k].end = e.end

\* C20: every spanned parsing error returned by parse reports the line
\* 1 + (number of "\n" before the start of its span) and the column
\* 1 + (number of characters between the last "\n" before the start of its
\* span, or the start of the input, and the start of its span), and its span,
\* of which the slice is the text, is the span of the offending token.
C20_ErrorPosition ==
    (pc = "done" /\ out.status = "Err") =>
        /\ out.err.line = 1 + C20_Newlines(input, out.err.start)
        /\ out.err.column = 1 + C20_SinceNewline(input, out.err.start)
        /\ C20_OffendingSpan(out.err)

\* C23: a list chord advances the timeline by its duration whatever the
\* number of its notes: when a note follows an empty list chord `[]:<n>`,
\* the delta of the note's note-on includes the tick length of the chord.
C23_EmptyChordAdvances ==
    (pc = "events" /\ event_index >= 2) =>
        LET seq == ast.statements[1]
            chord == seq.notes[event_index - 1]
            note == seq.notes[event_index]
        IN  (chord.event = "ListChord" /\ chord.notes = <<>> /\ note.event = "Single") =>
                /\ track[Len(track) - 1].kind = "NoteOn"
                /\ track[Len(track) - 1].delta
                       >= C6_Ticks(chord.note_length, C6_Signature(seq))

\* The sum of the deltas of the first n events of a track.
RECURSIVE C27_Elapsed(_, _)
C27_Elapsed(t, n) == IF n = 0 THEN 0 ELSE C27_Elapsed(t, n - 1) + t[n].delta

\* The sum of the tick lengths of the first n events of a sequence.
RECURSIVE C27_Length(_, _)
C27_Length(seq, n) ==
    IF n = 0 THEN 0
    ELSE C27_Length(seq, n - 1) + C6_Ticks(seq.notes[n].note_length, C6_Signature(seq))

\* C27: time is conserved: the deltas of all events of the track that
\* ast_to_midi returns, the end-of-track event included, add up to the sum
\* of the tick lengths of all events of the sequence, trailing rests
\* included.
C27_TimeConserved ==
    (pc = "done" /\ out.status = "Ok") =>
        C27_Elapsed(out.track, Len(out.track))
            = C27_Length(ast.statements[1], Len(ast.statements[1].notes))

\* The number of pitches of a SeqEvent.
C22_Size(e) ==
    IF e.event = "Rest" THEN 0 ELSE IF e.event = "Single" THEN 1 ELSE C6_Pitches(e)

\* The number of track events before the note events of event i of the
\* sequence: the two meta events and the note-on and note-off groups of the
\* events before it.
RECURSIVE C22_Before(_, _)
C22_Before(notes, i) ==
    IF i = 1 THEN 2 ELSE C22_Before(notes, i - 1) + 2 * C22_Size(notes[i - 1])

\* C22: with the absolute time of a track event taken as the sum of the
\* deltas up to it, every note-on of a sounding event is at the sum of the
\* tick lengths of all events before it in the sequence, its note-off is
\* exactly the tick length of the event later, on the same channel 0 and
\* with the same pitch; note-ons have velocity 127 and note-offs velocity 0;
\* and the note-offs of an event come before the note-ons of the next.
C22_AbsoluteTimes ==
    (pc = "done" /\ out.status = "Ok") =>
        LET t == out.track
            seq == ast.statements[1]
            n == Len(seq.notes)
        IN  /\ Len(t) = C22_Before(seq.notes, n + 1) + 1
            /\ \A i \in 1..n :
                   LET k == C22_Size(seq.notes[i])
                       before == C22_Before(seq.notes, i)
                       start == C27_Length(seq, i - 1)
                       length == C6_Ticks(seq.notes[i].note_length, C6_Signature(seq))
                   IN  \A j \in 1..k :
                           LET on == t[before + j]
                               off == t[before + k + j]
                           IN  /\ on.kind = "NoteOn" /\ off.kind = "NoteOff"
                               /\ on.channel = 0 /\ off.channel = 0
                               /\ on.key = off.key
                               /\ on.vel = 127 /\ off.vel = 0
                               /\ C27_Elapsed(t, before + j) = start
                               /\ C27_Elapsed(t, before + k + j) = start + length

\* C24: a named chord with a root pitch in 0..127 that has been compiled has
\* emitted, as note-on and as note-off pitches, exactly root + interval for
\* each of its chord tones, all of them at most 127: a chord with a tone above
\* 127 is not compiled, with no pitch reduced modulo 128, clamped or altered.
C24_NamedChordPitchesExact ==
    (pc = "events" /\ event_index >= 1) =>
        LET e == ast.statements[1].notes[event_index]
        IN  e.event = "NamedChord" =>
                LET root == C2_Pitch(e.chord_name.root, e.chord_name.root_accidental,
                                     e.chord_name.root_octave_number)
                    tones == C5_Expected(root, C5_Scale(e.chord_name.quality),
                                         Range(e.chord_name.extensions))
                    k == Cardinality(tones)
                    ons == SubSeq(track, Len(track) - 2 * k + 1, Len(track) - k)
                    offs == SubSeq(track, Len(track) - k + 1, Len(track))
                IN  root \in 0..127 =>
                        /\ \A p \in tones : p <= 127
                        /\ [j \in 1..k |-> ons[j].key] = C12_Ascending(tones)
                        /\ [j \in 1..k |-> offs[j].key] = C12_Ascending(tones)

\* C25: the pipeline never aborts: parse returns a Root or a parsing error
\* for every input, and ast_to_midi returns normally for every Root that
\* parse returns; no run ends in a panic.
C25_NeverAborts ==
    pc = "done" => out.status \in {"Ok", "Err"}

(***************************************************************************)
(* A further property of midi_named_chord, checked under SpecFn.           *)
(***************************************************************************)
\* C28: for a fixed root and a fixed extension list the chord qualities
\* Major, Minor, Diminished and Augmented give four pairwise different pitch
\* sets: the pitch set of a chord differs from that of the chord of the same
\* root and extensions with any other quality.
C28_QualitiesDiffer ==
    (call.fn = "midi_named_chord" /\ ret # <<>> /\ Returned(ret)) =>
        \A quality \in ChordQuality \ {call.chord.quality} :
            Range(midi_named_chord([call.chord EXCEPT !.quality = quality]).notes)
                # Range(ret.notes)

(***************************************************************************)
(* Further properties of parsing errors, checked under Spec.               *)
(***************************************************************************)
\* The line and column of character offset n of the text.
C29_Position(text, n) == <<1 + C20_Newlines(text, n), 1 + C20_SinceNewline(text, n)>>

\* C29: when the parser runs out of tokens inside a construct that is not
\* terminated, the unexpected-end-of-input error reports the line and column
\* of the end of the input (the offset after the last character, or at the
\* earliest the last token), not those of an earlier token.
C29_EoiAtEndOfInput ==
    (pc = "done" /\ out.status = "Err" /\ out.err.error = "Eoi") =>
        <<out.err.line, out.err.column>> \in
            { C29_Position(input, n) : n \in tokens[Len(tokens)].start..Len(input) }

(***************************************************************************)
(* A further property of the checkpoint stack, checked under SpecTs.       *)
(***************************************************************************)
\* C26: the value d that push_checkpoint returns identifies the checkpoint
\* it created: when the last checkpoint call was a push_checkpoint at cursor
\* p that returned d, and the cursor has been moved since, reset_to_checkpoint(d)
\* puts the cursor back at p and leaves the checkpoint stack as it was.
C26_ResetToPushedCheckpoint ==
    (call.fn = "reset_to_checkpoint" /\ history # <<>>) =>
        LET push == history[Len(history)]
            d == C17_Depth(history, Len(history))
        IN  (push.op = "push" /\ call.checkpoint = d) =>
                /\ current = push.current
                /\ checkpoints = call.self.checkpoints

(***************************************************************************)
(* A property of the expression parser, checked under SpecFn.              *)
(***************************************************************************)
\* The nesting depth after the tokens toks[1..n]; -1 once a right
\* parenthesis had nothing to close.
RECURSIVE C21_Depth(_, _)
C21_Depth(toks, n) ==
    IF n = 0 THEN 0
    ELSE LET before == C21_Depth(toks, n - 1)
         IN  IF before < 0 THEN before
             ELSE IF toks[n].kind = "LeftParen" THEN before + 1
             ELSE IF toks[n].kind = "RightParen" THEN before - 1
             ELSE before

\* Every token is a token, and every parenthesis has its match.
C21_WellFormed(toks) ==
    /\ \A i \in 1..Len(toks) : toks[i].kind \notin {"InvalidToken", "EndOfInput"}
    /\ C21_Depth(toks, Len(toks)) = 0

\* The index of the right parenthesis that matches the left parenthesis at
\* index i: the first index after i where the depth is back to that before i.
C21_Match(toks, i) ==
    CHOOSE j \in (i + 1)..Len(toks) :
        /\ C21_Depth(toks, j) = C21_Depth(toks, i - 1)
        /\ \A k \in i..(j - 1) : C21_Depth(toks, k) > C21_Depth(toks, i - 1)

\* The expressions of the tokens toks[lo..hi], in source order.
RECURSIVE C21_Expressions(_, _, _)
C21_Expressions(toks, lo, hi) ==
    IF lo > hi THEN <<>>
    ELSE IF toks[lo].kind = "LeftParen"
    THEN LET close == C21_Match(toks, lo)
         IN  <<Syntax("List", <<>>, 0, FALSE, C21_Expressions(toks, lo + 1, close - 1))>>
                 \o C21_Expressions(toks, close + 1, hi)
    ELSE <<Syntax(toks[lo].kind, toks[lo].string, toks[lo].number, toks[lo].boolean, <<>>)>>
             \o C21_Expressions(toks, lo + 1, hi)

\* C21: parse returns one Syntax for each top-level expression of the token
\* stream, in source order; a parenthesised group is a List of exactly the
\* expressions between its left parenthesis and the matching right one, at
\* any depth, and `()` is the empty List.
C21_ParseTree ==
    (call.fn = "parse" /\ ret # <<>>) =>
        LET toks == call.input.tokens
        IN  C21_WellFormed(toks) =>
                /\ ret.ok
                /\ ret.current = Len(toks)
                /\ ret.val = C21_Expressions(toks, 1, Len(toks))

\* The tokens of `1 (())`: the number 1, then a List of the empty List.
C21_Witness ==
    /\ call.fn = "parse"
    /\ call.input.tokens =
            <<Token("Number", <<>>, 1, FALSE), Token("LeftParen", <<>>, 0, FALSE),
              Token("LeftParen", <<>>, 0, FALSE), Token("RightParen", <<>>, 0, FALSE),
              Token("RightParen", <<>>, 0, FALSE)>>
    /\ ret # <<>>
    /\ ret.ok
    /\ ret.val =
            <<Syntax("Number", <<>>, 1, FALSE, <<>>),
              Syntax("List", <<>>, 0, FALSE, <<Syntax("List", <<>>, 0, FALSE, <<>>)>>)>>

(***************************************************************************)
(* SpecVm: Runtime::execute and Runtime::execute_str called in any order   *)
(* on a fresh Runtime.                                                     *)
(***************************************************************************)
\* The syntax trees handed to execute: the atoms 0, 1, `()` and the name f
\* by itself; (head), (head x) and (head x y) for every builtin function
\* and for f, which is no function, on atoms x and y; `(/ 1 0)`, `(- 1)`,
\* `(+ 1 1)`, `(== 1 1)` and `(f 1)` as first argument of `+`, `-` and
\* print, with or without 1 as second argument; and lists whose first
\* element is the number 1.
Programs ==
    LET List(elements) == Syntax("List", <<>>, 0, FALSE, elements)
        Number(value) == Syntax("Number", <<>>, value, FALSE, <<>>)
        Identifier(name) == Syntax("Identifier", name, 0, FALSE, <<>>)
        Operator(name) == Syntax("Operator", name, 0, FALSE, <<>>)
        print == Identifier(<<"p", "r", "i", "n", "t">>)
        atoms == {Number(0), Number(1), List(<<>>), Identifier(<<"f">>)}
        heads == {Operator(<<"+">>), Operator(<<"-">>), Operator(<<"*">>),
                  Operator(<<"/">>), Operator(<<"=", "=">>), Operator(<<"!", "=">>),
                  print, Identifier(<<"f">>)}
        inner == {List(<<Operator(<<"/">>), Number(1), Number(0)>>),
                  List(<<Operator(<<"-">>), Number(1)>>),
                  List(<<Operator(<<"+">>), Number(1), Number(1)>>),
                  List(<<Operator(<<"=", "=">>), Number(1), Number(1)>>),
                  List(<<Identifier(<<"f">>), Number(1)>>)}
        outer == {Operator(<<"+">>), Operator(<<"-">>), print}
    IN  atoms
            \cup {List(<<head>> \o arguments) :
                    head \in heads, arguments \in UNION {[1..n -> atoms] : n \in 0..2}}
            \cup {List(<<head, first>>) : head \in outer \cup {Number(1)}, first \in inner}
            \cup {List(<<head, first, Number(1)>>) : head \in outer, first \in inner}

\* The texts handed to execute_str.
Texts ==
    { <<>>,
      <<"(", "+", " ", "1", " ", "1", ")">>,
      <<"(", "/", " ", "1", " ", "0", ")">>,
      <<"(", "/", " ", "1", "0", " ", "-", "1", ")">>,
      <<"(", "-", "1", ")">>,
      <<"(", "-", " ", "1", ")">>,
      <<"(", "=", "=", " ", "1", " ", "(", ")", ")">>,
      <<"(", "*", " ", "t", "r", "u", "e", ")">>,
      <<"(", "+", " ", ":", "a", ")">>,
      <<"(", "f", ")">>,
      <<"1", " ", "(", "+", " ", "f", ")", " ", "1">>,
      <<";", ";", " ", "1", "\n", "(", "p", "r", "i", "n", "t", " ", "1">>,
      <<"(", "+", " ", "1", ")", ")">>,
      <<"(", "?", ")">> }

InitVm ==
    /\ call = [fn |-> "new"]
    /\ ret = <<>>
    /\ history = <<>>
    /\ runtime = Runtime_new
    /\ input = <<>>
    /\ pc = "done"
    /\ tokens = <<>>
    /\ current = 0
    /\ checkpoints = <<>>
    /\ ast = [statements |-> <<>>]
    /\ sequence = [tempo |-> <<>>, time_signature |-> <<>>, notes |-> <<>>]
    /\ track = <<>>
    /\ ticks_since_last_event = 0
    /\ event_index = 0
    /\ out = [status |-> "", panic |-> "", err |-> NoError, track |-> <<>>]

\* ret is the Result<Value, RuntimeError> of the call, runtime the Runtime
\* it leaves.
Execute ==
    /\ Len(runtime.call_stack) < MaxCallStack
    /\ \E syntax \in Programs :
        \E result \in {execute(runtime, syntax)} :
            /\ call' = [fn |-> "execute", syntax |-> syntax]
            /\ ret' = [ok |-> result.ok, value |-> result.value, err |-> result.err]
            /\ runtime' = result.rt
    /\ UNCHANGED history
    /\ UNCHANGED pipeVars

ExecuteStr ==
    /\ Len(runtime.call_stack) < MaxCallStack
    /\ \E text \in Texts :
        \E result \in {execute_str(runtime, text)} :
            /\ call' = [fn |-> "execute_str", input |-> text]
            /\ ret' = [ok |-> result.ok, value |-> result.value, err |-> result.err]
            /\ runtime' = result.rt
    /\ UNCHANGED history
    /\ UNCHANGED pipeVars

NextVm == Execute \/ ExecuteStr

SpecVm == InitVm /\ [][NextVm]_vars

(***************************************************************************)
(* A property of the Runtime, checked under SpecVm.                        *)
(***************************************************************************)
\* C30: after every Runtime::execute and Runtime::execute_str call on a
\* fresh Runtime, whether it returned Ok or Err, call_stack is empty again.
C30_CallStackBalanced ==
    call.fn \in {"execute", "execute_str"} => runtime.call_stack = <<>>

====
